---- MODULE Spec2Model ----
(***************************************************************************)
(* A model of the Genesis event-socket client: the channel state machine   *)
(* (genesis/channel.py), the header parser and frame reader                *)
(* (genesis/parser.py, genesis/protocol.py), the reply queue               *)
(* (Protocol.send / Protocol.consume) and the session manager              *)
(* (genesis/session.py).                                                   *)
(*                                                                         *)
(* The module holds several specifications over one set of variables:      *)
(*   SpecChannel  one Channel driven by update_state                       *)
(*   SpecParse    parse_headers applied to header blocks                   *)
(*   SpecFrame    Protocol.handler reading frames into the event queue     *)
(*   SpecSend     Protocol.send / consume on one connection                *)
(*   SpecExecute  Session.sendmsg of an execute command on the A-leg       *)
(*   SpecBridge   Channel.bridge to a dialstring                           *)
(*   SpecOriginate  Channel.originate                                      *)
(* Each specification leaves the variables of the others at their initial  *)
(* values.                                                                 *)
(***************************************************************************)
EXTENDS Integers, Sequences, FiniteSets, TLC

VARIABLES
    chan,           \* SpecChannel: the Channel object (state, call_state, is_gone, variables)
    everTerminal,   \* SpecChannel: history, some applied event left the channel terminal
    lastEvent,      \* SpecChannel: history, the event of the last update_state call
    lines,          \* SpecParse: the "Key: value" lines of the header block fed
    payload,        \* SpecParse: the header block as text (lines, newlines, blank line)
    parsed,         \* SpecParse: the ESLEvent parse_headers returned, or None
    ppc,            \* SpecParse: "idle", "fed" or "done"
    events,         \* Protocol.events: the queue of parsed events
    is_connected,   \* Protocol.is_connected
    producer,       \* the reader task: "running", "done" (returned), "crashed" (raised)
                    \* or "cancelled" (by stop)
    frameLog,       \* SpecFrame: history, one [frame, emitted, status] per frame read
    session,        \* the Session object: commands, handlers, channels, channel_a, the
                    \* writer's output, the Channel objects, the event loop's queues
    result,         \* the CommandResult of the execute command in flight
    job,            \* the BackgroundJobResult of the background job in flight
    app,            \* the application coroutine: operation, position, locals, outcome
    peer,           \* FreeSWITCH: commands answered, the state of its call legs
    hist            \* history of what was routed

chanVars == <<chan, everTerminal, lastEvent>>

parseVars == <<lines, payload, parsed, ppc>>

frameVars == <<events, is_connected, producer, frameLog>>

sessVars == <<session, result, job, app, peer, hist>>

None == "None"

(***************************************************************************)
(* Enumerations (genesis/enums.py, values as pinned by tests/test_enums).  *)
(***************************************************************************)
CS_NEW == 0
CS_HANGUP == 10
CS_REPORTING == 11
CS_DESTROY == 12
CS_NONE == 13

\* ChannelState(n) raises ValueError outside 0..13
ChannelStateValid(n) == n \in CS_NEW..CS_NONE

CallStateNames == {"DOWN", "DIALING", "RINGING", "EARLY", "ACTIVE", "HANGUP"}

(***************************************************************************)
(* Header values are strings; int() and str.upper() are tables over the    *)
(* strings the model feeds.                                                *)
(***************************************************************************)
DigitStrings == <<"0", "1", "2", "3", "4", "5", "6", "7", "8", "9",
                  "10", "11", "12", "13", "14", "99">>

DigitValues == <<0, 1, 2, 3, 4, 5, 6, 7, 8, 9, 10, 11, 12, 13, 14, 99>>

\* int(s) does not raise ValueError
IsInt(s) == \E i \in 1..Len(DigitStrings) : DigitStrings[i] = s

\* int(s)
IntOf(s) == DigitValues[CHOOSE i \in 1..Len(DigitStrings) : DigitStrings[i] = s]

\* str.upper()
Upper(s) ==
    CASE s = "active" -> "ACTIVE"
      [] s = "hangup" -> "HANGUP"
      [] s = "Hangup" -> "HANGUP"
      [] s = "early_media" -> "EARLY_MEDIA"
      [] s = "ringing" -> "RINGING"
      [] s = "bogus" -> "BOGUS"
      [] OTHER -> s

(***************************************************************************)
(* Channel (genesis/channel.py)                                            *)
(***************************************************************************)
\* Channel.__init__
NewChannel(uuid) ==
    [uuid |-> uuid, state |-> CS_NEW, call_state |-> "DOWN",
     is_gone |-> FALSE, variables |-> None, handlers |-> <<>>]

\* mutant: a number outside the enumeration is assigned as it is
StateAfter_unchecked(ch, ev) ==
    IF ev.csn = None THEN ch.state
    ELSE IF ~IsInt(ev.csn) THEN ch.state
    ELSE IntOf(ev.csn)

\* the state after the Channel-State-Number block of update_state
StateAfter(ch, ev) ==
    IF ev.csn = None THEN ch.state
    ELSE IF ~IsInt(ev.csn) THEN ch.state
    ELSE IF ChannelStateValid(IntOf(ev.csn)) THEN IntOf(ev.csn)
    ELSE ch.state

\* the call state after the Channel-Call-State block of update_state
CallStateAfter(ch, ev) ==
    IF ev.ccs = None \/ ev.ccs = "" THEN ch.call_state
    ELSE LET up == Upper(ev.ccs)
             key == IF up = "EARLY_MEDIA" THEN "EARLY" ELSE up
         IN IF key \in CallStateNames THEN key ELSE ch.call_state

\* mutant: is_gone recomputed from the current states on every event
update_state_recompute(ch, ev) ==
    LET s == StateAfter(ch, ev)
        c == CallStateAfter(ch, ev)
    IN [ch EXCEPT !.state = s, !.call_state = c,
                  !.is_gone = (c = "HANGUP" \/ s = CS_DESTROY),
                  !.variables = IF ev.var # None THEN ev.var ELSE @]

\* mutant: core state HANGUP counted as terminal
update_state_core_hangup(ch, ev) ==
    LET s == StateAfter(ch, ev)
        c == CallStateAfter(ch, ev)
    IN [ch EXCEPT !.state = s, !.call_state = c,
                  !.is_gone = (@ \/ c = "HANGUP" \/ s = CS_DESTROY \/ s = CS_HANGUP),
                  !.variables = IF ev.var # None THEN ev.var ELSE @]

\* Channel.update_state
update_state(ch, ev) ==
    LET s == StateAfter(ch, ev)
        c == CallStateAfter(ch, ev)
    IN [ch EXCEPT !.state = s, !.call_state = c,
                  !.is_gone = (@ \/ c = "HANGUP" \/ s = CS_DESTROY),
                  !.variables = IF ev.var # None THEN ev.var ELSE @]

\* the headers update_state reads, as the peer may send them
CsnInputs == {None, "0", "4", "10", "11", "12", "13", "14", "99", "abc"}

CcsInputs == {None, "", "DOWN", "ACTIVE", "active", "RINGING", "early_media",
              "HANGUP", "hangup", "bogus"}

VarInputs == {None, "v1"}

StateEvents == [csn : CsnInputs, ccs : CcsInputs, var : VarInputs]

NoEvent == [csn |-> None, ccs |-> None, var |-> None]

IsTerminal(ch) == ch.call_state = "HANGUP" \/ ch.state = CS_DESTROY

(***************************************************************************)
(* Text.  A str is a sequence of tokens: the characters ":", " " and "\n"  *)
(* that the parser looks for, and words (runs of other characters).        *)
(***************************************************************************)
NL == "\n"

SP == " "

COLON == ":"

IsSpace(t) == t = SP \/ t = NL

\* str.strip()
RECURSIVE LStrip(_)
LStrip(s) == IF s # <<>> /\ IsSpace(Head(s)) THEN LStrip(Tail(s)) ELSE s

RECURSIVE RStrip(_)
RStrip(s) ==
    IF s # <<>> /\ IsSpace(s[Len(s)]) THEN RStrip(SubSeq(s, 1, Len(s) - 1)) ELSE s

Strip(s) == RStrip(LStrip(s))

\* str.find(pat) + 1: the first position where pat occurs in s, 0 if none
Find(s, pat) ==
    LET hits == {i \in 1..(Len(s) - Len(pat) + 1) : SubSeq(s, i, i + Len(pat) - 1) = pat}
    IN IF hits = {} THEN 0 ELSE CHOOSE i \in hits : \A j \in hits : i <= j

\* pat in s
Contains(s, pat) == Find(s, pat) # 0

\* s.split(pat, 1): the text before and after the first pat
Before(s, pat) == SubSeq(s, 1, Find(s, pat) - 1)

After(s, pat) == SubSeq(s, Find(s, pat) + Len(pat), Len(s))

\* s.split(pat)
RECURSIVE Split(_, _)
Split(s, pat) ==
    IF Contains(s, pat) THEN <<Before(s, pat)>> \o Split(After(s, pat), pat)
    ELSE <<s>>

\* str.splitlines(): no empty last line after a final newline
SplitLines(s) ==
    IF s = <<>> THEN <<>>
    ELSE LET parts == Split(s, <<NL>>)
         IN IF parts[Len(parts)] = <<>> THEN SubSeq(parts, 1, Len(parts) - 1) ELSE parts

\* urllib.parse.unquote on one word: percent escapes decoded
UnquoteWord(t) ==
    CASE t = "k%31" -> "k1"
      [] t = "v%32" -> "v2"
      [] OTHER -> t

\* urllib.parse.unquote
Unquote(s) == [i \in 1..Len(s) |-> UnquoteWord(s[i])]

\* str.lower() on one word
LowerWord(t) ==
    CASE t = "Event-Lock" -> "event-lock"
      [] t = "Event-Name" -> "event-name"
      [] t = "Content-Length" -> "content-length"
      [] t = "Content-Type" -> "content-type"
      [] t = "TRUE" -> "true"
      [] OTHER -> t

\* str.lower()
Lower(s) == [i \in 1..Len(s) |-> LowerWord(s[i])]

SEP == <<COLON, SP>>

(***************************************************************************)
(* ESLEvent (genesis/events.py): a dict of headers and a body.  A header   *)
(* value is a str, [list |-> FALSE, v |-> text], or a list of str,         *)
(* [list |-> TRUE, v |-> <<text, ...>>].                                   *)
(***************************************************************************)
Scalar(v) == [list |-> FALSE, v |-> v]

ListOf(vs) == [list |-> TRUE, v |-> vs]

EmptyDict == [k \in {} |-> Scalar(<<>>)]

\* d[k] = v
DictSet(d, k, v) == [x \in DOMAIN d \cup {k} |-> IF x = k THEN v ELSE d[x]]

\* dict.update
DictUpdate(d, e) == [x \in DOMAIN d \cup DOMAIN e |-> IF x \in DOMAIN e THEN e[x] ELSE d[x]]

(***************************************************************************)
(* parse_headers (genesis/parser.py)                                       *)
(***************************************************************************)
\* the body of the for loop, on the state [dict, buffer, value]
ParseLine(st, line) ==
    LET hasSep == Contains(line, SEP)
        rawKey == IF hasSep THEN Before(line, SEP) ELSE st.buffer
        rawVal == IF hasSep THEN After(line, SEP) ELSE st.value \o <<NL>> \o line
        key    == Unquote(Strip(rawKey))
        value  == Unquote(Strip(rawVal))
        d      == st.dict
    IN [dict   |-> IF hasSep /\ key \in DOMAIN d
                   THEN IF d[key].list
                        THEN DictSet(d, key, ListOf(Append(d[key].v, value)))
                        ELSE DictSet(d, key, ListOf(<<d[key].v, value>>))
                   ELSE DictSet(d, key, Scalar(value)),
        buffer |-> IF hasSep THEN rawKey ELSE st.buffer,
        value  |-> value]

RECURSIVE ParseLines(_, _)
ParseLines(st, ls) ==
    IF ls = <<>> THEN st ELSE ParseLines(ParseLine(st, Head(ls)), Tail(ls))

\* parse_headers: the headers of the ESLEvent returned
parse_headers(text) ==
    ParseLines([dict |-> EmptyDict, buffer |-> <<>>, value |-> <<>>],
               SplitLines(Strip(text))).dict

\* one call of Channel.update_state
ApplyEvent ==
    \E ev \in StateEvents :
        /\ chan' = update_state(chan, ev)
        /\ everTerminal' = (everTerminal \/ IsTerminal(chan'))
        /\ lastEvent' = ev
        /\ UNCHANGED <<parseVars, frameVars, sessVars>>

(***************************************************************************)
(* Protocol.handler (genesis/protocol.py): one frame read from the stream  *)
(***************************************************************************)
K(word) == <<word>>

HasKey(d, word) == K(word) \in DOMAIN d

\* the content types whose body is never split into headers and body
ExemptTypes == {Scalar(K("api/response")), Scalar(K("text/rude-rejection")),
                Scalar(K("log/data"))}

\* bool(event.get("Content-Type", None))
Truthy(v) == v.v # <<>>

LockMarker == <<"event-lock", COLON, SP, "true">>

NameMarker == <<NL, "Event-Name", COLON, SP>>

\* int(text): the model's frames carry the numeral "N", the body's length
IsNumeral(text) == text = K("N")

\* the list event_parts built from headers_part
EventParts(headers_part) ==
    IF Contains(Lower(headers_part), LockMarker)
    THEN LET parts == Split(headers_part, NameMarker)
         IN IF Len(parts) > 1
            THEN <<parts[1]>> \o
                 [i \in 1..(Len(parts) - 1) |-> <<"Event-Name", COLON, SP>> \o parts[i + 1]]
            ELSE <<>>
    ELSE <<headers_part>>

\* the headers copied from the original event into a new event
Inherit(new, event) ==
    LET withLen == IF HasKey(event, "Content-Length")
                   THEN DictSet(new, K("Content-Length"), event[K("Content-Length")])
                   ELSE new
    IN IF HasKey(event, "Content-Type")
       THEN DictSet(withLen, K("Content-Type"), event[K("Content-Type")])
       ELSE withLen

\* the events put on the queue by the "for idx, event_str" loop
SplitEvents(event, content) ==
    LET headers_part == Before(content, <<NL, NL>>)
        body         == After(content, <<NL, NL>>)
        event_parts  == EventParts(headers_part)
        first        == IF event_parts = <<>> THEN event
                        ELSE DictUpdate(event, parse_headers(event_parts[1]))
    IN [i \in 1..Len(event_parts) |->
            IF i = 1 THEN [headers |-> first, body |-> body]
            ELSE [headers |-> Inherit(parse_headers(event_parts[i]), first),
                  body |-> body]]

\* mutant: a new event takes nothing from the original event
handler_frame_no_inherit(frame) ==
    LET event == parse_headers(frame.head)
        content == frame.body
        parts == EventParts(Before(content, <<NL, NL>>))
    IN IF HasKey(event, "Content-Length") /\ content # None
          /\ Contains(content, <<NL, NL>>) /\ Len(parts) > 1
       THEN [status |-> "ok",
             out |-> [i \in 1..Len(parts) |->
                        IF i = 1
                        THEN [headers |-> DictUpdate(event, parse_headers(parts[1])),
                              body |-> After(content, <<NL, NL>>)]
                        ELSE [headers |-> parse_headers(parts[i]),
                              body |-> After(content, <<NL, NL>>)]]]
       ELSE [status |-> "ok", out |-> <<[headers |-> event, body |-> content]>>]

\* one iteration of the outer loop of Protocol.handler on a complete frame:
\* the events put on the queue and how the iteration ends ("ok": the loop goes
\* on, "crash": an exception escapes the task, "disconnect": is_connected is
\* cleared and the loop left)
handler_frame(frame) ==
    LET event == parse_headers(frame.head)
    IN IF ~HasKey(event, "Content-Length")
       THEN [status |-> "ok", out |-> <<[headers |-> event, body |-> None]>>]
       ELSE LET cl == event[K("Content-Length")]
            IN IF cl.list \/ ~IsNumeral(Split(cl.v, <<NL>>)[1])
               THEN [status |-> "crash", out |-> <<>>]
               ELSE IF frame.body = None
               THEN [status |-> "disconnect", out |-> <<>>]
               ELSE LET content == frame.body
                        whole == <<[headers |-> event, body |-> content]>>
                    IN IF ~HasKey(event, "Content-Type") THEN [status |-> "ok", out |-> whole]
                       ELSE IF ~Truthy(event[K("Content-Type")])
                       THEN [status |-> "ok", out |-> whole]
                       ELSE IF event[K("Content-Type")] \in ExemptTypes
                       THEN [status |-> "ok", out |-> whole]
                       ELSE IF Contains(content, <<NL, NL>>)
                       THEN [status |-> "ok", out |-> SplitEvents(event, content)]
                       ELSE [status |-> "ok", out |-> whole]

(***************************************************************************)
(* SpecFrame: the frames the peer sends                                    *)
(***************************************************************************)
MaxFrames == 2

Line(k, v) == <<k>> \o SEP \o v \o <<NL>>

\* one serialised event header block inside a body
Block(name, lock, len) ==
    Line("Event-Name", K(name))
    \o (IF lock THEN Line("event-lock", K("true")) ELSE <<>>)
    \o (IF len THEN Line("Content-Length", K("3")) ELSE <<>>)
    \o Line("k1", K(name))

\* the text after the header blocks of a body
Rest(len) == IF len THEN <<"+OK">> ELSE <<>>

Bodies ==
    {Block("A", lock, len) \o <<NL>> \o Rest(len) : lock \in BOOLEAN, len \in BOOLEAN}
    \cup {Block("A", lock1, len) \o Block("B", lock2, FALSE) \o <<NL>> \o Rest(len) :
            lock1 \in BOOLEAN, lock2 \in BOOLEAN, len \in BOOLEAN}
    \cup {<<"+OK", SP, "done", NL>>}

HeadPlain == Line("Content-Length", K("N")) \o Line("Content-Type", K("text/event-plain")) \o <<NL>>

HeadApi == Line("Content-Length", K("N")) \o Line("Content-Type", K("api/response")) \o <<NL>>

HeadNoType == Line("Content-Length", K("N")) \o <<NL>>

HeadBadLength == Line("Content-Length", K("abc")) \o Line("Content-Type", K("text/event-plain")) \o <<NL>>

HeadReply == Line("Content-Type", K("command/reply")) \o Line("Reply-Text", K("+OK")) \o <<NL>>

Frames ==
    [head : {HeadPlain, HeadApi, HeadNoType, HeadBadLength}, body : Bodies]
    \cup {[head |-> HeadReply, body |-> None]}
    \cup {[head |-> HeadPlain, body |-> None]}

\* Protocol.handler: one frame is read, parsed and queued
ReadFrame ==
    /\ producer = "running"
    /\ is_connected
    /\ Len(frameLog) < MaxFrames
    /\ \E f \in Frames :
        LET r == handler_frame(f)
        IN /\ events' = events \o r.out
           /\ frameLog' = Append(frameLog, [frame |-> f, emitted |-> r.out, status |-> r.status])
           /\ producer' = CASE r.status = "ok" -> "running"
                            [] r.status = "crash" -> "crashed"
                            [] OTHER -> "done"
           /\ is_connected' = (r.status # "disconnect")
    /\ UNCHANGED <<chanVars, parseVars, sessVars>>

\* Protocol.handler: readline returns b"" (the peer closed) or the connection
\* was reset
ReadEOF ==
    /\ producer = "running"
    /\ is_connected
    /\ is_connected' = FALSE
    /\ producer' = "done"
    /\ UNCHANGED <<events, frameLog, chanVars, parseVars, sessVars>>

(***************************************************************************)
(* SpecParse: header blocks of "Key: value" lines, as the peer serialises  *)
(* them (percent-encoded, one header per line, a blank line at the end).   *)
(***************************************************************************)
MaxLines == 3

KeyWords == {"k1", "k2", "k%31"}

ValueTexts == {<<"v1">>, <<"v%32">>, <<>>, <<"v1", COLON, SP, "v2">>}

HeaderLines == [k : KeyWords, v : ValueTexts]

\* a header line on the wire
RenderLine(l) == <<l.k>> \o SEP \o l.v

\* a header block on the wire: each line ends with a newline, then a blank line
RECURSIVE RenderBlock(_)
RenderBlock(ls) ==
    IF ls = <<>> THEN <<NL>>
    ELSE RenderLine(Head(ls)) \o <<NL>> \o RenderBlock(Tail(ls))

\* the peer serialises a header block
Feed ==
    /\ ppc = "idle"
    /\ \E n \in 1..MaxLines : \E ls \in [1..n -> HeaderLines] :
        /\ lines' = ls
        /\ payload' = RenderBlock(ls)
    /\ ppc' = "fed"
    /\ UNCHANGED <<parsed, chanVars, frameVars, sessVars>>

\* parse_headers(payload)
Parse ==
    /\ ppc = "fed"
    /\ parsed' = parse_headers(payload)
    /\ ppc' = "done"
    /\ UNCHANGED <<lines, payload, chanVars, frameVars, sessVars>>

(***************************************************************************)
(* Session (genesis/session.py) on Protocol (genesis/protocol.py).         *)
(* An Event is the record of the headers that the router, the dispatcher   *)
(* and the handlers read.  Channel objects live in session.heap; a         *)
(* reference is an index into it, 0 is None.  session.ready is the event   *)
(* loop's FIFO of tasks created or woken and not yet run; session.getters  *)
(* the coroutines suspended in commands.get().                             *)
(***************************************************************************)
MaxSends == 3

MaxBeats == 1

Uuids == {"a", "b"}

\* uuid4() of the execute command and of the background job
AppUuid == "U"

\* uuid4() of the execute command of the background task
TaskUuid == "V"

JobUuid == "J"

myevents == FALSE

BlankEvent ==
    [ctype |-> None, name |-> None, subclass |-> None, uuid |-> None,
     app_uuid |-> None, job_uuid |-> None, csn |-> None, ccs |-> None,
     var |-> None, body |-> <<>>, channel_state |-> FALSE,
     disposition |-> None, reply_text |-> None, reply |-> 0,
     app_response |-> None]

\* a command as written to the writer
Cmd(kind, uuid, id) == [kind |-> kind, uuid |-> uuid, id |-> id]

\* a task of the event loop: a handler called with an event, or a coroutine
\* woken from commands.get() ("resume") or from an asyncio.Event ("wake")
Task(kind, id, channel_uuid, ev, obj) ==
    [kind |-> kind, id |-> id, chan |-> channel_uuid, ev |-> ev, obj |-> obj]

AppGetter == Task("resume", "app", None, BlankEvent, 0)

AppWaker == Task("wake", "app", None, BlankEvent, 0)

TaskGetter == Task("resume", "task", None, BlankEvent, 0)

TaskWaker == Task("wake_task", "task", None, BlankEvent, 0)

\* an entry of Protocol.handlers / Channel.handlers: the key and the callable
Handler(key, fn, id, channel_uuid) ==
    [key |-> key, fn |-> fn, id |-> id, chan |-> channel_uuid]

DispatchHandler == Handler("*", "dispatch", None, None)

\* Session.__init__
NewSession ==
    [commands |-> <<>>, getters |-> <<>>, ready |-> <<>>, written |-> <<>>,
     handlers |-> <<DispatchHandler>>,
     heap |-> <<>>, channels |-> [u \in Uuids |-> 0], channel_a |-> 0,
     writer |-> "open", consumer |-> "running", stops |-> <<>>, calls |-> <<>>,
     authentication_event |-> FALSE]

\* no CommandResult constructed yet
NoResult ==
    [command |-> None, app_uuid |-> None, channel_uuid |-> None, channel |-> 0,
     initial_event |-> BlankEvent, complete_event |-> BlankEvent,
     exception |-> None, exception_ids |-> <<>>, complete |-> FALSE,
     semaphore |-> FALSE]

NoJob == [job_uuid |-> None, completion_event |-> BlankEvent, response |-> <<>>,
          complete |-> FALSE, cmd |-> <<>>]

NoError == [type |-> None, destination |-> None, variables |-> {}]

\* asyncio.create_task(session.sendmsg("execute", ...)) of the application:
\* not created yet
NoTask == [pc |-> "none", result |-> NoResult]

IdleApp ==
    [op |-> None, pc |-> "idle", k |-> 0, timed |-> FALSE, log |-> <<>>,
     error |-> NoError, chan |-> 0, leg |-> 0, ret |-> 0,
     destination |-> None, variables |-> {}, block |-> FALSE,
     linger |-> FALSE, active_sessions |-> {}, park |-> TRUE, bg |-> NoTask]

NewPeer ==
    [answered |-> 0, legs |-> [u \in Uuids |-> "none"], exec |-> "none",
     job |-> "none", beats |-> 0, bye |-> FALSE, stray |-> FALSE,
     asked |-> FALSE]

NoHistory ==
    [terminal_routed |-> {}, gone_at_job |-> FALSE, had_entry |-> FALSE,
     a_sets |-> 0, dropped |-> {}]

\* Protocol.on
on(s, h) == [s EXCEPT !.handlers = Append(@, h)]

\* Protocol.remove
remove(s, h) == [s EXCEPT !.handlers = SelectSeq(@, LAMBDA x : x # h)]

\* commands.put(event): the item is queued and the first getter is woken
put_command(s, ev) ==
    LET s1 == [s EXCEPT !.commands = Append(@, ev)]
    IN IF s.getters = <<>> THEN s1
       ELSE [s1 EXCEPT !.getters = Tail(@), !.ready = Append(@, Head(s.getters))]

\* create_task(handler_func(event)) for each handler, in list order
TasksFor(hs, ev) ==
    [i \in 1..Len(hs) |-> Task(hs[i].fn, hs[i].id, hs[i].chan, ev, 0)]

\* mutant: the event name is the key of every event
dispatch_key_name(ev) ==
    ev.name

\* Protocol.consume: the key under which the handlers are looked up
dispatch_key(ev) ==
    IF ev.name = "CUSTOM" THEN ev.subclass ELSE ev.name

\* mutant: every frame that is not an event is taken for a reply
consume_any_reply(s, ev) ==
    LET s1 == IF ev.ctype # "text/event-plain" THEN put_command(s, ev) ELSE s
        name == dispatch_key(ev)
        specific == SelectSeq(s1.handlers, LAMBDA h : h.key = name)
        generic == SelectSeq(s1.handlers, LAMBDA h : h.key = "*")
    IN IF name = None THEN s1
       ELSE [s1 EXCEPT !.ready = @ \o TasksFor(specific \o generic, ev)]

\* Protocol.consume, one event that does not stop the connection: an
\* authentication request sets the signal, replies go to the reply queue, then
\* one task per handler of specific + generic
consume(s, ev) ==
    LET s1 == IF ev.ctype = "auth/request"
              THEN [s EXCEPT !.authentication_event = TRUE]
              ELSE IF ev.ctype \in {"command/reply", "api/response"}
              THEN put_command(s, ev) ELSE s
        name == dispatch_key(ev)
        specific == SelectSeq(s1.handlers, LAMBDA h : h.key = name)
        generic == SelectSeq(s1.handlers, LAMBDA h : h.key = "*")
    IN IF name = None THEN s1
       ELSE [s1 EXCEPT !.ready = @ \o TasksFor(specific \o generic, ev)]

\* the event makes consume call stop()
Stops(ev) ==
    /\ ev.ctype \in {"text/rude-rejection", "text/disconnect-notice"}
    /\ ev.disposition # "linger"

\* Protocol.send up to its suspension: the command is written and the
\* caller waits in commands.get(); with a reply already queued get() returns
\* without suspending, so the caller goes on before any other task
send(s, cmd, getter) ==
    LET s1 == [s EXCEPT !.written = Append(@, cmd)]
    IN IF s1.commands # <<>>
       THEN [s1 EXCEPT !.ready = <<getter>> \o @]
       ELSE [s1 EXCEPT !.getters = Append(@, getter)]

\* Channel._handle_event: the key under which the channel's handlers are looked up
HandlerKey(ev) ==
    IF ev.name = "CUSTOM"
    THEN IF ev.subclass # None THEN Upper(ev.subclass) ELSE "CUSTOM"
    ELSE IF ev.name # None THEN Upper(ev.name) ELSE None

\* handlers of the application: plain functions and coroutine functions,
\* returning or raising an Exception
SyncFns == {"sync_raising", "sync_returning"}

UserFns == SyncFns \cup {"raising", "returning"}

\* mutant: an exception of a plain handler leaves the loop over the handlers
invoke_until_raise(s, hs, ev, idx) ==
    LET bad == {i \in 1..Len(hs) : hs[i].fn = "sync_raising"}
        cut == IF bad = {} THEN hs
               ELSE SubSeq(hs, 1, CHOOSE i \in bad : \A j \in bad : i <= j)
        tasks == SelectSeq(cut, LAMBDA h : h.fn \notin SyncFns)
        threads == SelectSeq(cut, LAMBDA h : h.fn \in SyncFns)
    IN [s EXCEPT !.ready = @ \o [i \in 1..Len(tasks) |->
                                   Task(tasks[i].fn, tasks[i].id, tasks[i].chan, ev, idx)],
                 !.calls = @ \o [i \in 1..Len(threads) |-> <<threads[i].id, ev.name>>]]

\* Channel._handle_event, the loop over the handlers: a coroutine function
\* gets a task, a plain function is run in a thread and awaited, and an
\* Exception it raises is caught and logged
invoke(s, hs, ev, idx) ==
    LET tasks == SelectSeq(hs, LAMBDA h : h.fn \notin SyncFns)
        threads == SelectSeq(hs, LAMBDA h : h.fn \in SyncFns)
    IN [s EXCEPT !.ready = @ \o [i \in 1..Len(tasks) |->
                                   Task(tasks[i].fn, tasks[i].id, tasks[i].chan, ev, idx)],
                 !.calls = @ \o [i \in 1..Len(threads) |-> <<threads[i].id, ev.name>>]]

\* mutant: a destroyed channel stays in the registry
dispatch_known_keep(s, ev, idx) ==
    LET ch == update_state(s.heap[idx], ev)
        key == HandlerKey(ev)
        hs == SelectSeq(ch.handlers, LAMBDA h : h.key = key)
              \o SelectSeq(ch.handlers,
                           LAMBDA h : ev.name = "CUSTOM" /\ key # "CUSTOM" /\ h.key = "CUSTOM")
              \o SelectSeq(ch.handlers, LAMBDA h : h.key = "*")
    IN invoke([s EXCEPT !.heap[idx] = ch], hs, ev, idx)

\* the dispatcher for a channel it holds: Channel._handle_event (update_state,
\* one task per channel handler), then the CHANNEL_DESTROY clean-up
dispatch_known(s, ev, idx) ==
    LET ch == update_state(s.heap[idx], ev)
        key == HandlerKey(ev)
        hs == SelectSeq(ch.handlers, LAMBDA h : h.key = key)
              \o SelectSeq(ch.handlers,
                           LAMBDA h : ev.name = "CUSTOM" /\ key # "CUSTOM" /\ h.key = "CUSTOM")
              \o SelectSeq(ch.handlers, LAMBDA h : h.key = "*")
        s1 == invoke([s EXCEPT !.heap[idx] = ch], hs, ev, idx)
    IN IF ev.name = "CHANNEL_DESTROY"
       THEN [s1 EXCEPT !.channels[ev.uuid] = 0,
                       !.channel_a = IF @ # 0 /\ s1.heap[@].uuid = ev.uuid THEN 0 ELSE @]
       ELSE s1

\* the dispatcher after it created a channel: A-leg assignment, then as above
dispatch_created(s, ev, idx) ==
    dispatch_known([s EXCEPT !.channel_a = IF @ = 0 THEN idx ELSE @], ev, idx)

IsInitialConnectReply(s, ev) ==
    s.channel_a = 0 /\ ev.ctype = "command/reply" /\ ev.channel_state /\ ev.uuid # None

\* mutant: any event with an id creates the channel it names
dispatch_any(s, ev, connected) ==
    IF ev.uuid = None \/ ev.uuid = "" THEN s
    ELSE IF s.channels[ev.uuid] # 0 THEN dispatch_known(s, ev, s.channels[ev.uuid])
    ELSE LET idx == Len(s.heap) + 1
             s1 == [s EXCEPT !.heap = Append(@, NewChannel(ev.uuid)),
                             !.channels[ev.uuid] = idx]
         IN IF myevents \/ IsInitialConnectReply(s, ev) \/ ~connected
            THEN dispatch_created(s1, ev, idx)
            ELSE send(s1, Cmd("filter", ev.uuid, None),
                      Task("resume", "dispatch", None, ev, idx))

\* Session._dispatch_event_to_channels up to its suspension in send
dispatch(s, ev, connected) ==
    IF ev.uuid = None \/ ev.uuid = "" THEN s
    ELSE IF s.channels[ev.uuid] # 0 THEN dispatch_known(s, ev, s.channels[ev.uuid])
    ELSE IF ~(ev.name \in {"CHANNEL_CREATE", "CHANNEL_DATA"} \/ IsInitialConnectReply(s, ev))
    THEN s
    ELSE LET idx == Len(s.heap) + 1
             s1 == [s EXCEPT !.heap = Append(@, NewChannel(ev.uuid)),
                             !.channels[ev.uuid] = idx]
         IN IF myevents \/ IsInitialConnectReply(s, ev) \/ ~connected
            THEN dispatch_created(s1, ev, idx)
            ELSE send(s1, Cmd("filter", ev.uuid, None),
                      Task("resume", "dispatch", None, ev, idx))

\* Event.set() on the semaphore of the execute command or the job: a waiting
\* application coroutine is scheduled
wake(s, a) ==
    IF a.pc = "wait" THEN [s EXCEPT !.ready = Append(@, AppWaker)] ELSE s

\* Event.set() on the semaphore of the command with that correlation id
wake_waiter(s, a, event_uuid) ==
    IF event_uuid # TaskUuid THEN wake(s, a)
    ELSE IF a.bg.pc = "wait" THEN [s EXCEPT !.ready = Append(@, TaskWaker)]
    ELSE s

Pop(s) == [s EXCEPT !.ready = Tail(@)]

HeadIs(kind) == session.ready # <<>> /\ Head(session.ready).kind = kind

Running == producer = "running" /\ is_connected

IsTerminalEvent(ev) ==
    ev.ccs = "HANGUP" \/ ev.csn = "12"

\* the event is for no channel, or for an unknown id and no creation trigger
IsDropped(s, ev) ==
    \/ ev.uuid = None
    \/ /\ s.channels[ev.uuid] = 0
       /\ ~(ev.name \in {"CHANNEL_CREATE", "CHANNEL_DATA"} \/ IsInitialConnectReply(s, ev))

\* history of one run of the dispatcher that took session s to s2
Routed(h, s, s2, ev) ==
    [h EXCEPT !.terminal_routed = IF IsTerminalEvent(ev) THEN @ \cup {ev.uuid} ELSE @,
              !.a_sets = IF s.channel_a = 0 /\ s2.channel_a # 0 THEN @ + 1 ELSE @,
              !.dropped = IF IsDropped(s, ev)
                          THEN @ \cup {IF ev.name # None THEN ev.name ELSE ev.ctype}
                          ELSE @]

(***************************************************************************)
(* The router and the handler tasks                                        *)
(***************************************************************************)
\* Protocol.consume, one iteration.  The router is suspended in events.get()
\* whenever another task runs: it passed the loop test before the call, so the
\* get delivers the head of the queue also when is_connected was cleared in
\* the meantime, and the loop test that follows the routing ends the task.
\* stop() called from the consumer cancels the consumer itself and then awaits
\* a gather() that holds the consumer: the call never returns, the task stays
\* in cancellation, and no handler task is created for that event
Consume ==
    /\ session.consumer = "running"
    /\ events # <<>>
    /\ events' = Tail(events)
    /\ IF Stops(Head(events))
       THEN /\ is_connected' = FALSE
            /\ producer' = IF producer = "running" THEN "cancelled" ELSE producer
            /\ session' = [session EXCEPT !.writer = "closed",
                                          !.consumer = "cancelling",
                                          !.stops = Append(@, "pending")]
       ELSE /\ session' = [consume(session, Head(events)) EXCEPT
                               !.consumer = IF is_connected THEN @ ELSE "done"]
            /\ UNCHANGED <<is_connected, producer>>
    /\ UNCHANGED <<result, job, app, peer, hist, frameLog, chanVars, parseVars>>

\* a task running Session._dispatch_event_to_channels(event)
RunDispatch ==
    /\ HeadIs("dispatch")
    /\ LET ev == Head(session.ready).ev
       IN /\ session' = dispatch(Pop(session), ev, is_connected)
          /\ hist' = Routed(hist, session, session', ev)
    /\ UNCHANGED <<result, job, app, peer, frameVars, chanVars, parseVars>>

\* the dispatcher resumed in send with the reply to its filter command
ResumeDispatch ==
    /\ HeadIs("resume")
    /\ Head(session.ready).id = "dispatch"
    /\ LET t == Head(session.ready)
           s == Pop(session)
       IN /\ session' = IF s.commands = <<>>
                        THEN [s EXCEPT !.getters = Append(@, t)]
                        ELSE dispatch_created([s EXCEPT !.commands = Tail(@)], t.ev, t.obj)
          /\ hist' = [hist EXCEPT !.a_sets = IF session.channel_a = 0 /\ session'.channel_a # 0
                                             THEN @ + 1 ELSE @]
    /\ UNCHANGED <<result, job, app, peer, frameVars, chanVars, parseVars>>

\* the handlers _awaitable_complete_command registers
ExecuteHandlers(event_uuid, channel_uuid) ==
    <<Handler("CHANNEL_EXECUTE_COMPLETE", "complete", event_uuid, channel_uuid)>>
    \o IF channel_uuid # None
       THEN <<Handler("CHANNEL_HANGUP", "hangup", event_uuid, channel_uuid),
              Handler("CHANNEL_DESTROY", "hangup", event_uuid, channel_uuid)>>
       ELSE <<>>

\* mutant: no waiter is registered
awaitable_complete_command_none(s, event_uuid, channel_uuid) ==
    s

\* Session._awaitable_complete_command
awaitable_complete_command(s, event_uuid, channel_uuid) ==
    [s EXCEPT !.handlers = @ \o ExecuteHandlers(event_uuid, channel_uuid)]

\* "Clean up both handlers" of _complete_handler and _hangup_handler
remove_handlers(s, event_uuid, channel_uuid) ==
    LET hs == ExecuteHandlers(event_uuid, channel_uuid)
    IN [s EXCEPT !.handlers =
           SelectSeq(@, LAMBDA h : \A i \in 1..Len(hs) : h # hs[i])]

\* the CommandResult the closures of a command hold: the one of the
\* application's own call or the one of its background task
ResultOf(event_uuid) ==
    IF event_uuid = TaskUuid THEN app.bg.result ELSE result

Store(event_uuid, r) ==
    IF event_uuid = TaskUuid
    THEN app' = [app EXCEPT !.bg.result = r] /\ UNCHANGED result
    ELSE result' = r /\ UNCHANGED app

\* mutant: every execute completion counts
complete_matches_any(ev, event_uuid) ==
    TRUE

\* _complete_handler: "Application-UUID" in event and event[...] == event_uuid
complete_matches(ev, event_uuid) ==
    ev.app_uuid # None /\ ev.app_uuid = event_uuid

\* _hangup_handler: event.get("Unique-ID") == channel_uuid
hangup_matches(ev, channel_uuid) ==
    ev.uuid = channel_uuid

\* a task running _complete_handler(event)
RunComplete ==
    /\ HeadIs("complete")
    /\ LET t == Head(session.ready)
           s == Pop(session)
           r == ResultOf(t.id)
       IN IF complete_matches(t.ev, t.id)
          THEN /\ Store(t.id, [r EXCEPT !.complete_event = t.ev,
                                        !.complete = TRUE, !.semaphore = TRUE])
               /\ session' = remove_handlers(
                                 IF r.semaphore THEN s ELSE wake_waiter(s, app, t.id),
                                 t.id, t.chan)
          ELSE /\ session' = s
               /\ UNCHANGED <<result, app>>
    /\ UNCHANGED <<job, peer, hist, frameVars, chanVars, parseVars>>

\* mutant: the hangup handler releases the waiter and stores nothing
RunHangupSilent ==
    /\ HeadIs("hangup")
    /\ LET t == Head(session.ready)
           s == Pop(session)
       IN IF t.ev.uuid = t.chan
          THEN /\ result' = [result EXCEPT !.semaphore = TRUE]
               /\ session' = remove_handlers(
                                 IF result.semaphore THEN s ELSE wake(s, app), t.id, t.chan)
          ELSE /\ session' = s
               /\ UNCHANGED result
    /\ UNCHANGED <<job, app, peer, hist, frameVars, chanVars, parseVars>>

\* a task running _hangup_handler(event)
RunHangup ==
    /\ HeadIs("hangup")
    /\ LET t == Head(session.ready)
           s == Pop(session)
           r == ResultOf(t.id)
       IN IF hangup_matches(t.ev, t.chan)
          THEN /\ Store(t.id, [r EXCEPT !.exception = "OperationInterruptedException",
                                        !.exception_ids = <<t.id, t.chan>>,
                                        !.complete = TRUE, !.semaphore = TRUE])
               /\ session' = remove_handlers(
                                 IF r.semaphore THEN s ELSE wake_waiter(s, app, t.id),
                                 t.id, t.chan)
          ELSE /\ session' = s
               /\ UNCHANGED <<result, app>>
    /\ UNCHANGED <<job, peer, hist, frameVars, chanVars, parseVars>>

\* CommandResult.wait on a result whose _complete event is set: the stored
\* exception is raised, otherwise the result returned
wait(r) ==
    IF r.exception # None
    THEN [raised |-> TRUE, exception |-> r.exception, ids |-> r.exception_ids]
    ELSE [raised |-> FALSE, exception |-> None, ids |-> <<>>]

\* CommandResult.is_completed: _complete.is_set()
is_completed(r) == r.complete

\* mutant: is_successful without the test of is_completed
is_successful_unchecked(r) ==
    [raised |-> None, value |-> r.exception = None]

\* CommandResult.is_successful: what the property raises, and its value
is_successful(r) ==
    IF ~is_completed(r) THEN [raised |-> "ValueError", value |-> FALSE]
    ELSE [raised |-> None, value |-> r.exception = None]

\* CommandResult.response: the Application-Response of the complete event
response(r) ==
    IF ~is_completed(r) \/ r.complete_event = BlankEvent THEN None
    ELSE r.complete_event.app_response

\* CommandResult.__bool__
bool(r) == r.complete

\* the handler CommandResult registers on its channel
CompletionHandler(app_uuid) ==
    Handler("CHANNEL_EXECUTE_COMPLETE", "completion", app_uuid, None)

\* a task running CommandResult's completion_handler(channel, event)
RunCompletion ==
    /\ HeadIs("completion")
    /\ LET t == Head(session.ready)
           s == Pop(session)
           r == ResultOf(t.id)
       IN IF t.ev.name = "CHANNEL_EXECUTE_COMPLETE" /\ t.ev.app_uuid = r.app_uuid
          THEN /\ Store(t.id, [r EXCEPT !.complete_event = t.ev, !.complete = TRUE])
               /\ session' = IF r.channel # 0
                             THEN [s EXCEPT !.heap[r.channel].handlers =
                                      SelectSeq(@, LAMBDA h : h # CompletionHandler(t.id))]
                             ELSE s
          ELSE /\ session' = s
               /\ UNCHANGED <<result, app>>
    /\ UNCHANGED <<job, peer, hist, frameVars, chanVars, parseVars>>

(***************************************************************************)
(* The peer.  A frame it sends is read by Protocol.handler and queued as   *)
(* an Event; a call leg is created, hung up and destroyed in that order.   *)
(***************************************************************************)
ReplyTo(k, cmd) ==
    [BlankEvent EXCEPT !.ctype = IF cmd.kind = "api" THEN "api/response"
                                 ELSE "command/reply",
                       !.reply = k,
                       !.job_uuid = IF cmd.kind = "bgapi" THEN cmd.id ELSE None]

LegEvent(name, uuid, csn, ccs) ==
    [BlankEvent EXCEPT !.ctype = "text/event-plain", !.name = name, !.uuid = uuid,
                       !.csn = csn, !.ccs = ccs]

\* the reply to the oldest command not yet answered
PeerReply ==
    /\ Running
    /\ peer.answered < Len(session.written)
    /\ LET k == peer.answered + 1
           cmd == session.written[k]
       IN /\ events' = Append(events, ReplyTo(k, cmd))
          /\ peer' = [peer EXCEPT !.answered = k,
                                  !.exec = IF cmd.kind = "execute" THEN "running" ELSE @,
                                  !.job = IF cmd.kind = "bgapi" THEN "running" ELSE @]
    /\ UNCHANGED <<is_connected, producer, frameLog, session, result, job, app, hist,
                   chanVars, parseVars>>

\* CHANNEL_EXECUTE_COMPLETE of the application started by an execute command
PeerComplete ==
    /\ Running
    /\ peer.exec = "running"
    /\ \E k \in 1..peer.answered :
        LET cmd == session.written[k]
        IN /\ cmd.kind = "execute"
           /\ events' = Append(events,
                  [LegEvent("CHANNEL_EXECUTE_COMPLETE", cmd.uuid, None, None)
                      EXCEPT !.app_uuid = cmd.id, !.app_response = "FILE PLAYED"])
    /\ peer' = [peer EXCEPT !.exec = "done"]
    /\ UNCHANGED <<is_connected, producer, frameLog, session, result, job, app, hist,
                   chanVars, parseVars>>

\* CHANNEL_EXECUTE_COMPLETE of an application this session did not start
\* (another client's command on the same leg)
PeerStray ==
    /\ Running
    /\ ~peer.stray
    /\ \E u \in Uuids :
        /\ peer.legs[u] = "up"
        /\ events' = Append(events,
               [LegEvent("CHANNEL_EXECUTE_COMPLETE", u, None, None)
                   EXCEPT !.app_uuid = "W"])
    /\ peer' = [peer EXCEPT !.stray = TRUE]
    /\ UNCHANGED <<is_connected, producer, frameLog, session, result, job, app, hist,
                   chanVars, parseVars>>

\* CHANNEL_CREATE of the leg an accepted originate command dials
PeerCreate ==
    /\ Running
    /\ peer.job = "running"
    /\ LET cmd == CHOOSE c \in {session.written[i] : i \in 1..Len(session.written)} :
                      c.kind = "bgapi"
       IN /\ peer.legs[cmd.uuid] = "none"
          /\ events' = Append(events, LegEvent("CHANNEL_CREATE", cmd.uuid, "0", "DOWN"))
          /\ peer' = [peer EXCEPT !.legs[cmd.uuid] = "up"]
    /\ UNCHANGED <<is_connected, producer, frameLog, session, result, job, app, hist,
                   chanVars, parseVars>>

PeerHangup ==
    /\ Running
    /\ \E u \in Uuids :
        /\ peer.legs[u] = "up"
        /\ events' = Append(events, LegEvent("CHANNEL_HANGUP", u, "10", "HANGUP"))
        /\ peer' = [peer EXCEPT !.legs[u] = "hungup"]
    /\ UNCHANGED <<is_connected, producer, frameLog, session, result, job, app, hist,
                   chanVars, parseVars>>

PeerDestroy ==
    /\ Running
    /\ \E u \in Uuids :
        /\ peer.legs[u] = "hungup"
        /\ events' = Append(events, LegEvent("CHANNEL_DESTROY", u, "12", "HANGUP"))
        /\ peer' = [peer EXCEPT !.legs[u] = "destroyed"]
    /\ UNCHANGED <<is_connected, producer, frameLog, session, result, job, app, hist,
                   chanVars, parseVars>>

\* the first event of a leg the session has not seen: its creation, or an
\* event of a leg that existed before the session subscribed
PeerLeg ==
    /\ Running
    /\ \E u \in Uuids, name \in {"CHANNEL_CREATE", "CHANNEL_DATA", "CHANNEL_ANSWER"} :
        /\ peer.legs[u] = "none"
        /\ events' = Append(events, LegEvent(name, u, "4", "ACTIVE"))
        /\ peer' = [peer EXCEPT !.legs[u] = "up"]
    /\ UNCHANGED <<is_connected, producer, frameLog, session, result, job, app, hist,
                   chanVars, parseVars>>

\* the body of a BACKGROUND_JOB event, as its words
JobBodies == {<<"+OK", "b">>, <<"-ERR", "DESTINATION_OUT_OF_ORDER">>}

\* BACKGROUND_JOB: the completion of an accepted background job
PeerJob ==
    /\ Running
    /\ peer.job = "running"
    /\ \E body \in JobBodies :
        events' = Append(events,
            [BlankEvent EXCEPT !.ctype = "text/event-plain", !.name = "BACKGROUND_JOB",
                               !.job_uuid = JobUuid, !.body = body])
    /\ peer' = [peer EXCEPT !.job = "done"]
    /\ UNCHANGED <<is_connected, producer, frameLog, session, result, job, app, hist,
                   chanVars, parseVars>>

\* an event that belongs to no channel
PeerHeartbeat ==
    /\ Running
    /\ peer.beats < MaxBeats
    /\ events' = Append(events,
           [BlankEvent EXCEPT !.ctype = "text/event-plain", !.name = "HEARTBEAT"])
    /\ peer' = [peer EXCEPT !.beats = @ + 1]
    /\ UNCHANGED <<is_connected, producer, frameLog, session, result, job, app, hist,
                   chanVars, parseVars>>

\* the subclasses of the CUSTOM events the peer sends (None: no header)
Subclasses == {None, "sofia::register", "conference::maintenance"}

\* a CUSTOM event, which belongs to no channel
PeerCustom ==
    /\ Running
    /\ peer.beats < MaxBeats
    /\ \E subclass \in Subclasses :
        events' = Append(events,
            [BlankEvent EXCEPT !.ctype = "text/event-plain", !.name = "CUSTOM",
                               !.subclass = subclass])
    /\ peer' = [peer EXCEPT !.beats = @ + 1]
    /\ UNCHANGED <<is_connected, producer, frameLog, session, result, job, app, hist,
                   chanVars, parseVars>>

\* auth/request: the peer asks for the password
PeerAuth ==
    /\ Running
    /\ ~peer.asked
    /\ events' = Append(events, [BlankEvent EXCEPT !.ctype = "auth/request"])
    /\ peer' = [peer EXCEPT !.asked = TRUE]
    /\ UNCHANGED <<is_connected, producer, frameLog, session, result, job, app, hist,
                   chanVars, parseVars>>

\* text/disconnect-notice or text/rude-rejection, with or without
\* Content-Disposition: linger
PeerDisconnect ==
    /\ Running
    /\ ~peer.bye
    /\ \E ctype \in {"text/disconnect-notice", "text/rude-rejection"},
          d \in {None, "linger"} :
        events' = Append(events,
            [BlankEvent EXCEPT !.ctype = ctype, !.disposition = d])
    /\ peer' = [peer EXCEPT !.bye = TRUE]
    /\ UNCHANGED <<is_connected, producer, frameLog, session, result, job, app, hist,
                   chanVars, parseVars>>

(***************************************************************************)
(* The application coroutine                                               *)
(***************************************************************************)
Error(type) == [NoError EXCEPT !.type = type]

Raise(a, type) == [a EXCEPT !.pc = "raised", !.error = Error(type)]

\* the application coroutine is the task at the head of the ready queue,
\* woken from commands.get()
AppResumes(op, pc) ==
    /\ app.op = op
    /\ app.pc = pc
    /\ HeadIs("resume")
    /\ Head(session.ready).id = "app"

\* commands.get() resumed on an empty queue waits again
Rewait(s) == [s EXCEPT !.getters = Append(@, AppGetter)]

\* mutant: send without its checks
send_check_none(connected, writer) ==
    None

\* Protocol.send: what the checks before the first write raise
send_check(connected, writer) ==
    IF ~connected THEN "UnconnectedError"
    ELSE IF writer = "closed" THEN "ConnectionError"
    ELSE None

\* Protocol.send(cmd, reply_timeout) called by the application
Send ==
    /\ app.pc = "idle"
    /\ app.op \in {None, "send"}
    /\ Len(app.log) < MaxSends
    /\ \E kind \in {"api", "command"}, timed \in BOOLEAN :
        IF send_check(is_connected, session.writer) # None
        THEN /\ app' = [app EXCEPT !.op = "send",
                                   !.log = Append(@, [k |-> 0,
                                                      outcome |-> send_check(is_connected,
                                                                             session.writer),
                                                      reply |-> BlankEvent])]
             /\ UNCHANGED session
        ELSE /\ app' = [app EXCEPT !.op = "send", !.pc = "reply_wait", !.timed = timed,
                                   !.k = Len(session.written) + 1]
             /\ session' = send(session, Cmd(kind, None, None), AppGetter)
    /\ UNCHANGED <<result, job, peer, hist, frameVars, chanVars, parseVars>>

\* Protocol.send resumed with the next item of the reply queue
SendReturn ==
    /\ AppResumes("send", "reply_wait")
    /\ LET s == Pop(session)
       IN IF s.commands = <<>>
          THEN /\ session' = Rewait(s)
               /\ UNCHANGED app
          ELSE /\ session' = [s EXCEPT !.commands = Tail(@)]
               /\ app' = [app EXCEPT !.pc = "idle",
                                     !.log = Append(@, [k |-> app.k, outcome |-> "returned",
                                                        reply |-> Head(s.commands)])]
    /\ UNCHANGED <<result, job, peer, hist, frameVars, chanVars, parseVars>>

\* Protocol.send: reply_timeout expires while the caller waits in
\* commands.get(); the getter is cancelled and ConnectionError raised
SendTimeout ==
    /\ app.op = "send"
    /\ app.pc = "reply_wait"
    /\ app.timed
    /\ \E i \in 1..Len(session.getters) : session.getters[i] = AppGetter
    /\ session' = [session EXCEPT !.getters = SelectSeq(@, LAMBDA g : g # AppGetter)]
    /\ app' = [app EXCEPT !.pc = "idle",
                          !.log = Append(@, [k |-> app.k, outcome |-> "ConnectionError",
                                             reply |-> BlankEvent])]
    /\ UNCHANGED <<result, job, peer, hist, frameVars, chanVars, parseVars>>

\* the reply to "connect" as Outbound.handler passes it to the dispatcher
ConnectReply ==
    [BlankEvent EXCEPT !.ctype = "command/reply", !.uuid = "a", !.channel_state = TRUE,
                       !.csn = "4", !.ccs = "ACTIVE"]

\* Outbound.handler: the context of the connection is dispatched, which
\* creates the A-leg; the application is then called with the session
Connect ==
    /\ app.pc = "idle"
    /\ app.op = None
    /\ app.chan = 0
    /\ peer.legs["a"] = "none"
    /\ session' = dispatch(session, ConnectReply, is_connected)
    /\ app' = [app EXCEPT !.chan = session'.channel_a]
    /\ peer' = [peer EXCEPT !.legs["a"] = "up"]
    /\ hist' = Routed(hist, session, session', ConnectReply)
    /\ UNCHANGED <<result, job, frameVars, chanVars, parseVars>>

\* Session.sendmsg("execute", application, uuid=<A-leg>, app_event_uuid=AppUuid)
\* up to its suspension in send
Sendmsg ==
    /\ app.pc = "idle"
    /\ app.op = None
    /\ app.chan # 0
    /\ LET uuid == session.heap[app.chan].uuid
           channel == session.channels[uuid]
           s1 == IF channel # 0
                 THEN [session EXCEPT !.heap[channel].handlers =
                                          Append(@, CompletionHandler(AppUuid))]
                 ELSE session
           s2 == awaitable_complete_command(s1, AppUuid, uuid)
       IN /\ result' = [NoResult EXCEPT !.command = "execute", !.app_uuid = AppUuid,
                                        !.channel_uuid = uuid, !.channel = channel]
          /\ IF ~is_connected
             THEN /\ session' = s2
                  /\ app' = Raise([app EXCEPT !.op = "execute"], "UnconnectedError")
             ELSE /\ session' = send(s2, Cmd("execute", uuid, AppUuid), AppGetter)
                  /\ app' = [app EXCEPT !.op = "execute", !.pc = "reply_wait"]
    /\ UNCHANGED <<job, peer, hist, frameVars, chanVars, parseVars>>

\* Session.sendmsg resumed with the command's reply; it then waits for the
\* semaphore unless that is already set
SendmsgReply ==
    /\ AppResumes("execute", "reply_wait")
    /\ LET s == Pop(session)
       IN IF s.commands = <<>>
          THEN /\ session' = Rewait(s)
               /\ UNCHANGED <<app, result>>
          ELSE /\ session' = [s EXCEPT !.commands = Tail(@)]
               /\ result' = [result EXCEPT !.initial_event = Head(s.commands)]
               /\ app' = [app EXCEPT !.pc = IF result.semaphore THEN "returned" ELSE "wait"]
    /\ UNCHANGED <<job, peer, hist, frameVars, chanVars, parseVars>>

\* Session.sendmsg woken by the semaphore: it returns the CommandResult
SendmsgReturn ==
    /\ app.op = "execute"
    /\ app.pc = "wait"
    /\ HeadIs("wake")
    /\ session' = Pop(session)
    /\ app' = [app EXCEPT !.pc = "returned"]
    /\ UNCHANGED <<result, job, peer, hist, frameVars, chanVars, parseVars>>

\* the commands of sendmsg that are not execute
OtherCommands == {"hangup", "nomedia"}

\* CommandResult.__init__: the completion handler is put on the channel only
\* for an execute command with a channel and an app_uuid
register_completion_handler(s, channel, app_uuid, command) ==
    IF channel # 0 /\ app_uuid # None /\ command = "execute"
    THEN [s EXCEPT !.heap[channel].handlers = Append(@, CompletionHandler(app_uuid))]
    ELSE s

\* mutant: the waiters are registered for every command
sendmsg_waiters_always(s, command, app_event_uuid, uuid) ==
    awaitable_complete_command(s, app_event_uuid, uuid)

\* Session.sendmsg: only the execute branch registers the waiters
sendmsg_waiters(s, command, app_event_uuid, uuid) ==
    IF command = "execute" THEN awaitable_complete_command(s, app_event_uuid, uuid)
    ELSE s

\* Session.sendmsg(command, ..., uuid=<A-leg>) with a command other than
\* execute, up to its suspension in send
SendmsgOther ==
    /\ app.pc = "idle"
    /\ app.op = None
    /\ app.chan # 0
    /\ \E command \in OtherCommands, app_event_uuid \in {None, AppUuid} :
        LET uuid == session.heap[app.chan].uuid
            channel == session.channels[uuid]
            s1 == register_completion_handler(session, channel, app_event_uuid, command)
            s2 == sendmsg_waiters(s1, command, app_event_uuid, uuid)
        IN /\ result' = [NoResult EXCEPT !.command = command,
                                         !.app_uuid = app_event_uuid,
                                         !.channel_uuid = uuid, !.channel = channel]
           /\ IF ~is_connected
              THEN /\ session' = s2
                   /\ app' = Raise([app EXCEPT !.op = "sendmsg"], "UnconnectedError")
              ELSE /\ session' = send(s2, Cmd(command, uuid, app_event_uuid), AppGetter)
                   /\ app' = [app EXCEPT !.op = "sendmsg", !.pc = "reply_wait"]
    /\ UNCHANGED <<job, peer, hist, frameVars, chanVars, parseVars>>

\* that call resumed with the command's reply: the result is completed with
\* it and returned
SendmsgOtherReply ==
    /\ AppResumes("sendmsg", "reply_wait")
    /\ LET s == Pop(session)
       IN IF s.commands = <<>>
          THEN /\ session' = Rewait(s)
               /\ UNCHANGED <<app, result>>
          ELSE /\ session' = [s EXCEPT !.commands = Tail(@)]
               /\ result' = [result EXCEPT !.initial_event = Head(s.commands),
                                           !.complete_event = Head(s.commands),
                                           !.complete = TRUE]
               /\ app' = [app EXCEPT !.pc = "returned"]
    /\ UNCHANGED <<job, peer, hist, frameVars, chanVars, parseVars>>

\* Session.sendmsg("execute", application, uuid=<a leg>, app_event_uuid=TaskUuid)
\* run as a task of its own, up to its suspension in send
TaskSendmsg ==
    /\ app.bg.pc = "none"
    /\ app.chan # 0
    /\ \E uuid \in Uuids :
        LET channel == session.channels[uuid]
            s1 == IF channel # 0
                  THEN [session EXCEPT !.heap[channel].handlers =
                                           Append(@, CompletionHandler(TaskUuid))]
                  ELSE session
            s2 == awaitable_complete_command(s1, TaskUuid, uuid)
            r == [NoResult EXCEPT !.command = "execute", !.app_uuid = TaskUuid,
                                  !.channel_uuid = uuid, !.channel = channel]
        IN IF ~is_connected
           THEN /\ session' = s2
                /\ app' = [app EXCEPT !.bg = [pc |-> "raised", result |-> r]]
           ELSE /\ session' = send(s2, Cmd("execute", uuid, TaskUuid), TaskGetter)
                /\ app' = [app EXCEPT !.bg = [pc |-> "reply_wait", result |-> r]]
    /\ UNCHANGED <<result, job, peer, hist, frameVars, chanVars, parseVars>>

\* the task resumed with the next item of the reply queue
TaskReply ==
    /\ HeadIs("resume")
    /\ Head(session.ready).id = "task"
    /\ LET s == Pop(session)
       IN IF s.commands = <<>>
          THEN /\ session' = [s EXCEPT !.getters = Append(@, TaskGetter)]
               /\ UNCHANGED app
          ELSE /\ session' = [s EXCEPT !.commands = Tail(@)]
               /\ app' = [app EXCEPT !.bg.result.initial_event = Head(s.commands),
                                     !.bg.pc = IF app.bg.result.semaphore THEN "returned"
                                               ELSE "wait"]
    /\ UNCHANGED <<result, job, peer, hist, frameVars, chanVars, parseVars>>

\* the task woken by its semaphore: sendmsg returns the CommandResult
TaskReturn ==
    /\ app.bg.pc = "wait"
    /\ HeadIs("wake_task")
    /\ session' = Pop(session)
    /\ app' = [app EXCEPT !.bg.pc = "returned"]
    /\ UNCHANGED <<result, job, peer, hist, frameVars, chanVars, parseVars>>

\* the parameters of Session.sendmsg
SendmsgParameters ==
    {"command", "application", "data", "lock", "uuid", "app_event_uuid", "headers"}

\* the keyword arguments Channel._sendmsg passes to it
SendmsgArguments ==
    {"command", "application", "data", "lock", "uuid", "app_event_uuid", "block",
     "headers"}

\* mutant: _sendmsg without _check_if_gone
channel_sendmsg_unchecked(ch) ==
    IF ~(SendmsgArguments \subseteq SendmsgParameters) THEN "TypeError"
    ELSE None

\* Channel.execute -> Channel._sendmsg: what the call raises, None if the
\* arguments bind and Session.sendmsg runs
channel_sendmsg(ch) ==
    IF ch.is_gone THEN "SessionGoneAway"
    ELSE IF ~(SendmsgArguments \subseteq SendmsgParameters) THEN "TypeError"
    ELSE None

\* Channel.bridge after the filter command: self.execute("bridge", ...)
bridge_execute(a, s) ==
    LET e == channel_sendmsg(s.heap[a.chan])
    IN IF e # None THEN Raise(a, e) ELSE [a EXCEPT !.pc = "execute"]

\* Channel.bridge(target: str) on the A-leg up to its suspension in send
Bridge ==
    /\ app.pc = "idle"
    /\ app.op = None
    /\ app.chan # 0
    /\ IF session.heap[app.chan].is_gone
       THEN /\ app' = Raise([app EXCEPT !.op = "bridge"], "SessionGoneAway")
            /\ UNCHANGED session
       ELSE LET idx == Len(session.heap) + 1
                s1 == [session EXCEPT !.heap = Append(@, NewChannel("b")),
                                      !.channels["b"] = idx]
                a1 == [app EXCEPT !.op = "bridge", !.leg = idx]
            IN IF ~is_connected
               THEN /\ session' = s1
                    /\ app' = bridge_execute(a1, s1)
               ELSE /\ session' = send(s1, Cmd("filter", "b", None), AppGetter)
                    /\ app' = [a1 EXCEPT !.pc = "reply_wait"]
    /\ UNCHANGED <<result, job, peer, hist, frameVars, chanVars, parseVars>>

\* Channel.bridge resumed with the reply to the filter command
BridgeFiltered ==
    /\ AppResumes("bridge", "reply_wait")
    /\ LET s == Pop(session)
       IN IF s.commands = <<>>
          THEN /\ session' = Rewait(s)
               /\ UNCHANGED app
          ELSE /\ session' = [s EXCEPT !.commands = Tail(@)]
               /\ app' = bridge_execute(app, s)
    /\ UNCHANGED <<result, job, peer, hist, frameVars, chanVars, parseVars>>

\* variables passed to originate ({} also stands for None)
Variables == {{}, {<<"k", "v">>}}

\* vars_dict = variables or {}; vars_dict['origination_uuid'] = new_uuid
VarsDict(v, new_uuid) == v \cup {<<"origination_uuid", new_uuid>>}

\* response_body.startswith("-ERR") or "ERROR" in response_body.upper()
IsErrorBody(body) ==
    \/ body # <<>> /\ body[1] = "-ERR"
    \/ \E i \in 1..Len(body) : Upper(body[i]) = "ERROR"

\* what originate raises
OriginateError(a) ==
    [type |-> "OriginateError", destination |-> a.destination, variables |-> a.variables]

\* mutant: an origination that failed leaves the registry as it is
originate_finish_keep(s, a, j) ==
    LET new_uuid == s.heap[a.leg].uuid
        unreg == [s EXCEPT !.channels[new_uuid] = 0]
        raised == [a EXCEPT !.pc = "raised", !.error = OriginateError(a)]
        checked == j.completion_event # BlankEvent /\ j.response # <<>>
        reg == [s EXCEPT !.channels[new_uuid] = a.leg]
    IN IF checked /\ IsErrorBody(j.response)
       THEN [session |-> s, app |-> raised]
       ELSE IF reg.heap[a.leg].is_gone
       THEN [session |-> unreg, app |-> raised]
       ELSE [session |-> reg, app |-> [a EXCEPT !.pc = "returned", !.ret = a.leg]]

\* Channel.originate once the job completed: the response is classified, the
\* new channel registered and checked; a failure removes the registry entry
originate_finish(s, a, j) ==
    LET new_uuid == s.heap[a.leg].uuid
        unreg == [s EXCEPT !.channels[new_uuid] = 0]
        raised == [a EXCEPT !.pc = "raised", !.error = OriginateError(a)]
        checked == j.completion_event # BlankEvent /\ j.response # <<>>
        reg == [s EXCEPT !.channels[new_uuid] = a.leg]
    IN IF checked /\ IsErrorBody(j.response)
       THEN [session |-> unreg, app |-> raised]
       ELSE IF reg.heap[a.leg].is_gone
       THEN [session |-> unreg, app |-> raised]
       ELSE [session |-> reg, app |-> [a EXCEPT !.pc = "returned", !.ret = a.leg]]

\* Channel.originate(session, destination, uuid="b", variables) up to its
\* suspension in send
Originate ==
    /\ app.pc = "idle"
    /\ app.op = None
    /\ \E v \in Variables :
        LET idx == Len(session.heap) + 1
            s1 == [session EXCEPT !.heap = Append(@, NewChannel("b"))]
            a1 == [app EXCEPT !.op = "originate", !.leg = idx,
                              !.destination = "user/1000",
                              !.variables = VarsDict(v, "b")]
        IN IF ~is_connected
           THEN /\ session' = [s1 EXCEPT !.channels["b"] = 0]
                /\ app' = [a1 EXCEPT !.pc = "raised", !.error = OriginateError(a1)]
           ELSE /\ session' = send(s1, Cmd("filter", "b", None), AppGetter)
                /\ app' = [a1 EXCEPT !.pc = "reply_wait"]
    /\ UNCHANGED <<result, job, peer, hist, frameVars, chanVars, parseVars>>

JobHandler(job_uuid) == Handler("BACKGROUND_JOB", "job", job_uuid, None)

\* Session.bgapi_execute -> BackgroundAPI.execute: a job result keyed by the
\* job id is registered and the bgapi command sent
run_background(s, uuid, job_uuid) ==
    send(on(s, JobHandler(job_uuid)), Cmd("bgapi", uuid, job_uuid), AppGetter)

\* Channel.originate resumed with the reply to the filter command: it calls
\* session.bgapi_execute
OriginateFiltered ==
    /\ AppResumes("originate", "reply_wait")
    /\ LET s == Pop(session)
       IN IF s.commands = <<>>
          THEN /\ session' = Rewait(s)
               /\ UNCHANGED <<app, job>>
          ELSE /\ session' = run_background([s EXCEPT !.commands = Tail(@)], "b", JobUuid)
               /\ job' = [NoJob EXCEPT !.job_uuid = JobUuid]
               /\ app' = [app EXCEPT !.pc = "accept_wait"]
    /\ UNCHANGED <<result, peer, hist, frameVars, chanVars, parseVars>>

\* bgapi_execute resumed with the reply to the bgapi command; originate then
\* awaits the job result
OriginateAccepted ==
    /\ AppResumes("originate", "accept_wait")
    /\ LET s == Pop(session)
       IN IF s.commands = <<>>
          THEN /\ session' = Rewait(s)
               /\ UNCHANGED <<app, hist>>
          ELSE LET s1 == [s EXCEPT !.commands = Tail(@)]
               IN IF job.complete
                  THEN /\ session' = originate_finish(s1, app, job).session
                       /\ app' = originate_finish(s1, app, job).app
                       /\ hist' = [hist EXCEPT !.had_entry = s1.channels["b"] # 0]
                  ELSE /\ session' = s1
                       /\ app' = [app EXCEPT !.pc = "wait"]
                       /\ UNCHANGED hist
    /\ UNCHANGED <<result, job, peer, frameVars, chanVars, parseVars>>

\* Channel.originate woken by the completed job
OriginateFinish ==
    /\ app.op = "originate"
    /\ app.pc = "wait"
    /\ HeadIs("wake")
    /\ LET s == Pop(session)
       IN /\ session' = originate_finish(s, app, job).session
          /\ app' = originate_finish(s, app, job).app
          /\ hist' = [hist EXCEPT !.had_entry = s.channels["b"] # 0]
    /\ UNCHANGED <<result, job, peer, frameVars, chanVars, parseVars>>

\* a task running the job handler with a BACKGROUND_JOB event: the job with
\* the matching id resolves, once, with the event's body as its response
RunJob ==
    /\ HeadIs("job")
    /\ LET t == Head(session.ready)
           s == Pop(session)
       IN IF t.ev.job_uuid = t.id /\ ~job.complete
          THEN /\ job' = [job EXCEPT !.completion_event = t.ev, !.response = t.ev.body,
                                     !.complete = TRUE]
               /\ session' = remove(wake(s, app), JobHandler(t.id))
               /\ hist' = [hist EXCEPT !.gone_at_job = "b" \in hist.terminal_routed]
          ELSE /\ session' = s
               /\ UNCHANGED <<job, hist>>
    /\ UNCHANGED <<result, app, peer, frameVars, chanVars, parseVars>>

\* the operations built on Channel.execute, and those that check the channel
\* themselves
ExecuteOps == {"execute", "answer", "park", "playback", "set_variable"}

CheckedOps == {"get_variable", "unbridge", "uuid_bridge"}

\* the operations with a block parameter the caller chooses; answer and park
\* take the default of execute, set_variable passes block=False
BlockOps == {"execute", "playback"}

\* a str of the command line as its parts: "" is the empty sequence
Str(x) == IF x = None \/ x = "" THEN <<>> ELSE <<x>>

\* mutant: the destination is used although park is set
transfer_cmd_keep(uuid, destination, park) ==
    LET transfer_target == IF park /\ Str(destination) = <<>> THEN <<"park:">>
                           ELSE Str(destination)
        both_flag == IF park THEN <<"-both">> ELSE <<>>
    IN <<"uuid_transfer", SP, uuid, SP>> \o both_flag \o <<SP>> \o transfer_target
       \o <<SP, "inline">>

\* Channel.unbridge: f"uuid_transfer {self.uuid} {both_flag} {transfer_target} inline"
transfer_cmd(uuid, destination, park) ==
    LET transfer_target == IF park THEN <<"park:">> ELSE Str(destination)
        both_flag == IF park THEN <<"-both">> ELSE <<>>
    IN <<"uuid_transfer", SP, uuid, SP>> \o both_flag \o <<SP>> \o transfer_target
       \o <<SP, "inline">>

\* mutant: the pair of uuid_bridge the other way round
bridge_cmd_swapped(uuid, target_uuid) ==
    <<"uuid_bridge", SP, target_uuid, SP, uuid>>

\* Channel.bridge with a Channel as target: f"uuid_bridge {self.uuid} {target.uuid}"
bridge_cmd(uuid, target_uuid) ==
    <<"uuid_bridge", SP, uuid, SP, target_uuid>>

\* Channel.execute / answer / park / playback / set_variable / get_variable /
\* unbridge / bridge(<Channel>) on the A-leg, up to the first suspension
ChannelOp ==
    /\ app.pc = "idle"
    /\ app.op = None
    /\ app.chan # 0
    /\ \E op \in ExecuteOps \cup CheckedOps,
          block \in BOOLEAN,
          destination \in {None, "", "1000"},
          park \in BOOLEAN,
          target \in 0..Len(session.heap) :
        LET ch == session.heap[app.chan]
            a1 == [app EXCEPT !.op = op, !.block = block,
                              !.destination = destination, !.park = park,
                              !.leg = target]
        IN /\ block => op \in BlockOps
           /\ op # "unbridge" => destination = None /\ park
           /\ op = "uuid_bridge" <=> target # 0
           /\ target # app.chan
           /\ IF op \in ExecuteOps
              THEN /\ app' = IF channel_sendmsg(ch) # None
                             THEN Raise(a1, channel_sendmsg(ch))
                             ELSE [a1 EXCEPT !.pc = "execute"]
                   /\ UNCHANGED <<session, job>>
              ELSE IF ch.is_gone
              THEN /\ app' = Raise(a1, "SessionGoneAway")
                   /\ UNCHANGED <<session, job>>
              ELSE IF op = "get_variable"
              THEN /\ app' = [a1 EXCEPT !.pc = "returned"]
                   /\ UNCHANGED <<session, job>>
              ELSE IF ~is_connected
              THEN /\ app' = Raise(a1, "UnconnectedError")
                   /\ UNCHANGED <<session, job>>
              ELSE /\ session' = run_background(session, ch.uuid, JobUuid)
                   /\ job' = [NoJob EXCEPT !.job_uuid = JobUuid,
                                            !.cmd = IF op = "unbridge"
                                                    THEN transfer_cmd(ch.uuid, destination,
                                                                      park)
                                                    ELSE bridge_cmd(ch.uuid,
                                                                    session.heap[target].uuid)]
                   /\ app' = [a1 EXCEPT !.pc = "accept_wait"]
    /\ UNCHANGED <<result, peer, hist, frameVars, chanVars, parseVars>>

\* Channel.unbridge or bridge(<Channel>) resumed with the reply to the bgapi
\* command; it then awaits the job result
UnbridgeAccepted ==
    /\ \E op \in {"unbridge", "uuid_bridge"} : AppResumes(op, "accept_wait")
    /\ LET s == Pop(session)
       IN IF s.commands = <<>>
          THEN /\ session' = Rewait(s)
               /\ UNCHANGED app
          ELSE /\ session' = [s EXCEPT !.commands = Tail(@)]
               /\ app' = [app EXCEPT !.pc = IF job.complete THEN "returned" ELSE "wait"]
    /\ UNCHANGED <<result, job, peer, hist, frameVars, chanVars, parseVars>>

\* Channel.unbridge or bridge(<Channel>) woken by the completed job: it
\* returns the job result
UnbridgeReturn ==
    /\ app.op \in {"unbridge", "uuid_bridge"}
    /\ app.pc = "wait"
    /\ HeadIs("wake")
    /\ session' = Pop(session)
    /\ app' = [app EXCEPT !.pc = "returned"]
    /\ UNCHANGED <<result, job, peer, hist, frameVars, chanVars, parseVars>>

\* the hangup causes the application passes
Causes == {"NORMAL_CLEARING", "USER_BUSY"}

\* Channel.hangup(cause) on the A-leg
Hangup ==
    /\ app.pc = "idle"
    /\ app.op = None
    /\ app.chan # 0
    /\ \E cause \in Causes :
        LET ch == session.heap[app.chan]
            a1 == [app EXCEPT !.op = "hangup"]
            ev == [BlankEvent EXCEPT !.reply_text = "+OK Channel already hungup or gone"]
        IN IF ch.state \in {CS_HANGUP, CS_DESTROY} \/ ch.is_gone
           THEN /\ result' = [NoResult EXCEPT !.command = "hangup",
                                              !.channel_uuid = ch.uuid,
                                              !.channel = app.chan,
                                              !.initial_event = ev,
                                              !.complete_event = ev,
                                              !.complete = TRUE]
                /\ app' = [a1 EXCEPT !.pc = "returned"]
           ELSE /\ app' = IF channel_sendmsg(ch) # None
                          THEN Raise(a1, channel_sendmsg(ch))
                          ELSE [a1 EXCEPT !.pc = "execute"]
                /\ UNCHANGED result
    /\ UNCHANGED <<session, job, peer, hist, frameVars, chanVars, parseVars>>

\* number of calls of Protocol.stop in one behaviour
MaxStops == 2

\* Protocol.stop called by the application or by a context manager.  A task
\* that is not done is cancelled and gathered, a task that is done is only
\* inspected; the writer is closed unless it is closing already; the fields
\* are dropped at the end.  cancel() of a consumer that is itself suspended in
\* stop() recurses through its own gather() and raises RecursionError.
Stop ==
    /\ Len(session.stops) < MaxStops
    /\ is_connected' = FALSE
    /\ producer' = IF producer = "running" THEN "cancelled" ELSE producer
    /\ session' = IF session.consumer = "cancelling"
                  THEN [session EXCEPT !.writer = "closed",
                                       !.stops = Append(@, "raised")]
                  ELSE [session EXCEPT
                          !.writer = "closed",
                          !.consumer = IF @ = "running" THEN "cancelled" ELSE @,
                          !.stops = Append(@, "completed")]
    /\ UNCHANGED <<events, frameLog, result, job, app, peer, hist, chanVars,
                   parseVars>>

\* Protocol.consume with nothing queued: events.get() times out and the loop
\* test finds is_connected false
ConsumerExit ==
    /\ ~is_connected
    /\ events = <<>>
    /\ session.consumer = "running"
    /\ session' = [session EXCEPT !.consumer = "done"]
    /\ UNCHANGED <<events, is_connected, producer, frameLog, result, job, app,
                   peer, hist, chanVars, parseVars>>

\* number of handlers the application registers
MaxHandlers == 2

\* Protocol.on / Channel.on by the application: a handler for one event name
\* or for every event, on the session or on the A-leg
On ==
    /\ \E key \in {"CHANNEL_HANGUP", "*"}, fn \in UserFns, onChannel \in BOOLEAN :
        LET ids == <<"h1", "h2", "h3", "h4">>
            used == {session.handlers[i].id : i \in DOMAIN session.handlers}
                    \cup UNION {{session.heap[j].handlers[i].id :
                                    i \in DOMAIN session.heap[j].handlers} :
                                 j \in DOMAIN session.heap}
            n == Cardinality(used \cap {ids[i] : i \in DOMAIN ids})
            h == Handler(key, fn, ids[n + 1], None)
        IN /\ n < MaxHandlers
           /\ onChannel => session.channel_a # 0
           /\ session' = IF onChannel
                          THEN [session EXCEPT !.heap[session.channel_a].handlers =
                                                  Append(@, h)]
                          ELSE on(session, h)
    /\ UNCHANGED <<result, job, app, peer, hist, frameVars, chanVars, parseVars>>

\* Protocol.on by the application, under an event name, a subclass or the
\* wildcard; the same function may be registered again
OnKey ==
    /\ \E key \in {"HEARTBEAT", "CUSTOM", "sofia::register", "*"},
          fn \in {"returning", "sync_returning"} :
        LET ids == <<"h1", "h2", "h3", "h4">>
            n == Len(SelectSeq(session.handlers, LAMBDA h : h.fn \in UserFns))
        IN /\ n < MaxHandlers
           /\ session' = on(session, Handler(key, fn, ids[n + 1], None))
    /\ UNCHANGED <<result, job, app, peer, hist, frameVars, chanVars, parseVars>>

\* a task running a handler of the application, or to_thread of it: the
\* handler is called with the event; an exception ends this task only
RunHandler ==
    /\ session.ready # <<>>
    /\ Head(session.ready).kind \in UserFns
    /\ LET t == Head(session.ready)
       IN session' = [Pop(session) EXCEPT !.calls = Append(@, <<t.id, t.ev.name>>)]
    /\ UNCHANGED <<result, job, app, peer, hist, frameVars, chanVars, parseVars>>

(***************************************************************************)
(* Outbound.handler (genesis/outbound.py), one connection.  The coroutine  *)
(* is the application record: pc is its position, active_sessions the keys *)
(* of server.active_sessions.  server.myevents is the myevents of above.   *)
(***************************************************************************)
\* the reply to "connect" that carries the channel data of the A-leg
PeerContext ==
    /\ Running
    /\ peer.answered < Len(session.written)
    /\ session.written[peer.answered + 1].kind = "connect"
    /\ events' = Append(events, ConnectReply)
    /\ peer' = [peer EXCEPT !.answered = @ + 1, !.legs["a"] = "up"]
    /\ UNCHANGED <<is_connected, producer, frameLog, session, result, job, app, hist,
                   chanVars, parseVars>>

\* Outbound.handler up to its suspension in session.send("connect")
HandlerStart ==
    /\ app.pc = "idle"
    /\ app.op = None
    /\ app.chan = 0
    /\ session.written = <<>>
    /\ is_connected
    /\ \E linger \in BOOLEAN :
        app' = [app EXCEPT !.op = "handler", !.pc = "connect_wait", !.linger = linger]
    /\ session' = send(session, Cmd("connect", None, None), AppGetter)
    /\ UNCHANGED <<result, job, peer, hist, frameVars, chanVars, parseVars>>

\* mutant: the finally block leaves the entry of active_sessions
Leave_keep(a, s, type) ==
    /\ app' = [a EXCEPT !.pc = "finished", !.error = Error(type)]
    /\ is_connected' = FALSE
    /\ producer' = IF producer = "running" THEN "cancelled" ELSE producer
    /\ session' = IF s.consumer = "cancelling"
                  THEN [s EXCEPT !.writer = "closed", !.stops = Append(@, "raised")]
                  ELSE [s EXCEPT !.writer = "closed",
                                 !.consumer = IF @ = "running" THEN "cancelled" ELSE @,
                                 !.stops = Append(@, "completed")]

\* the end of Outbound.handler: "async with session" is left, which stops the
\* session, an exception is logged by the outer except, and the finally block
\* deletes the entry of active_sessions
Leave(a, s, type) ==
    /\ app' = [a EXCEPT !.pc = "finished", !.error = Error(type),
                        !.active_sessions = {}]
    /\ is_connected' = FALSE
    /\ producer' = IF producer = "running" THEN "cancelled" ELSE producer
    /\ session' = IF s.consumer = "cancelling"
                  THEN [s EXCEPT !.writer = "closed", !.stops = Append(@, "raised")]
                  ELSE [s EXCEPT !.writer = "closed",
                                 !.consumer = IF @ = "running" THEN "cancelled" ELSE @,
                                 !.stops = Append(@, "completed")]

\* Outbound.handler resumed in send with a reply: after "connect" the reply
\* is dispatched and the session registered under the A-leg, then the
\* subscription and the linger command are sent; after the last reply the
\* application is called
HandlerResume ==
    /\ app.op = "handler"
    /\ app.pc \in {"connect_wait", "subscribe_wait", "linger_wait"}
    /\ HeadIs("resume")
    /\ Head(session.ready).id = "app"
    /\ LET s == Pop(session)
           r == Head(s.commands)
           s1 == [s EXCEPT !.commands = Tail(@)]
           s2 == dispatch(s1, r, is_connected)
           subscription == IF myevents THEN "myevents" ELSE "events plain ALL"
       IN IF s.commands = <<>>
          THEN /\ session' = Rewait(s)
               /\ UNCHANGED <<app, hist, is_connected, producer>>
          ELSE IF app.pc = "connect_wait"
          THEN /\ hist' = Routed(hist, s1, s2, r)
               /\ IF s2.channel_a = 0
                  THEN Leave(app, s2, None)
                  ELSE LET a1 == [app EXCEPT
                                    !.chan = s2.channel_a,
                                    !.active_sessions = @ \cup {s2.heap[s2.channel_a].uuid}]
                       IN IF ~is_connected
                          THEN Leave(a1, s2, "UnconnectedError")
                          ELSE /\ app' = [a1 EXCEPT !.pc = "subscribe_wait"]
                               /\ session' = send(s2, Cmd(subscription, None, None),
                                                  AppGetter)
                               /\ UNCHANGED <<is_connected, producer>>
          ELSE IF app.pc = "subscribe_wait" /\ app.linger
          THEN /\ UNCHANGED hist
               /\ IF ~is_connected
                  THEN Leave(app, s1, "UnconnectedError")
                  ELSE /\ app' = [app EXCEPT !.pc = "linger_wait"]
                       /\ session' = send(s1, Cmd("linger", None, None), AppGetter)
                       /\ UNCHANGED <<is_connected, producer>>
          ELSE /\ app' = [app EXCEPT !.pc = "app"]
               /\ session' = s1
               /\ UNCHANGED <<hist, is_connected, producer>>
    /\ UNCHANGED <<result, job, peer, events, frameLog, chanVars, parseVars>>

\* server.app(session) ends: it returns, or it raises and the handler tries to
\* hang up an A-leg that is not gone, logging what that raises; then the
\* handler is left
HandlerApp ==
    /\ app.op = "handler"
    /\ app.pc = "app"
    /\ \E raises \in BOOLEAN :
        LET a == session.channel_a
            hangs == raises /\ a # 0 /\ ~session.heap[a].is_gone
                     /\ channel_sendmsg(session.heap[a]) = None
            s == IF hangs
                 THEN [session EXCEPT !.written = Append(@, Cmd("hangup", session.heap[a].uuid,
                                                                "SYSTEM_ERROR"))]
                 ELSE session
        IN Leave(app, s, None)
    /\ UNCHANGED <<result, job, peer, hist, events, frameLog, chanVars, parseVars>>

(***************************************************************************)
(* Specifications                                                          *)
(***************************************************************************)
vars == <<chanVars, parseVars, frameVars, sessVars>>

\* the state after construction and Protocol.start()
Init ==
    /\ chan = NewChannel("a")
    /\ everTerminal = FALSE
    /\ lastEvent = NoEvent
    /\ lines = <<>>
    /\ payload = <<>>
    /\ parsed = None
    /\ ppc = "idle"
    /\ events = <<>>
    /\ is_connected = TRUE
    /\ producer = "running"
    /\ frameLog = <<>>
    /\ session = NewSession
    /\ result = NoResult
    /\ job = NoJob
    /\ app = IdleApp
    /\ peer = NewPeer
    /\ hist = NoHistory

NextChannel == ApplyEvent

SpecChannel == Init /\ [][NextChannel]_vars

NextParse == Feed \/ Parse

SpecParse == Init /\ [][NextParse]_vars

NextFrame == ReadFrame \/ ReadEOF

SpecFrame == Init /\ [][NextFrame]_vars

NextSend ==
    \/ Send \/ SendReturn \/ SendTimeout
    \/ PeerReply \/ PeerHeartbeat \/ PeerDisconnect
    \/ Consume \/ RunDispatch

SpecSend == Init /\ [][NextSend]_vars

NextExecute ==
    \/ Connect \/ Sendmsg \/ SendmsgReply \/ SendmsgReturn
    \/ PeerReply \/ PeerComplete \/ PeerHangup \/ PeerDestroy
    \/ Consume \/ RunDispatch \/ RunComplete \/ RunHangup \/ RunCompletion

SpecExecute == Init /\ [][NextExecute]_vars

NextBridge ==
    \/ Connect \/ Bridge \/ BridgeFiltered
    \/ PeerReply \/ PeerHangup \/ PeerDestroy \/ PeerHeartbeat
    \/ Consume \/ RunDispatch

SpecBridge == Init /\ [][NextBridge]_vars

NextDispatch ==
    \/ Connect \/ PeerLeg \/ PeerHangup \/ PeerDestroy \/ PeerReply
    \/ Consume \/ RunDispatch \/ ResumeDispatch

SpecDispatch == Init /\ [][NextDispatch]_vars

NextUnknown ==
    \/ Connect \/ PeerLeg \/ PeerHangup \/ PeerHeartbeat \/ PeerReply
    \/ Consume \/ RunDispatch \/ ResumeDispatch

SpecUnknown == Init /\ [][NextUnknown]_vars

NextChannelOps ==
    \/ Connect \/ ChannelOp \/ UnbridgeAccepted \/ UnbridgeReturn \/ Hangup
    \/ Bridge \/ BridgeFiltered
    \/ PeerReply \/ PeerHangup \/ PeerDestroy \/ PeerJob
    \/ Consume \/ RunDispatch \/ RunJob

SpecChannelOps == Init /\ [][NextChannelOps]_vars

NextFailure ==
    \/ Send \/ SendReturn \/ SendTimeout
    \/ Connect \/ Sendmsg \/ SendmsgReply \/ SendmsgReturn
    \/ PeerReply \/ PeerComplete \/ ReadEOF
    \/ Consume \/ RunDispatch \/ RunComplete \/ RunCompletion

\* the event loop runs every task that is ready and fires every timer; the
\* peer and the application are free to do nothing
FairLoop ==
    /\ WF_vars(Consume) /\ WF_vars(RunDispatch)
    /\ WF_vars(RunComplete) /\ WF_vars(RunCompletion)
    /\ WF_vars(SendReturn) /\ WF_vars(SendTimeout)
    /\ WF_vars(SendmsgReply) /\ WF_vars(SendmsgReturn)

LiveFailure == Init /\ [][NextFailure]_vars /\ FairLoop

\* shutdown: the application stops the protocol, the peer says goodbye or
\* closes the connection, commands are still being sent
NextStop ==
    \/ Stop \/ ConsumerExit \/ ReadEOF
    \/ Send \/ SendReturn
    \/ PeerReply \/ PeerDisconnect \/ PeerHeartbeat
    \/ Consume \/ RunDispatch

SpecStop == Init /\ [][NextStop]_vars

\* the event loop runs the router and every task that is ready
FairRouter ==
    /\ WF_vars(Consume)
    /\ WF_vars(ConsumerExit)
    /\ WF_vars(SendReturn)
    /\ WF_vars(RunDispatch)

LiveStop == Init /\ [][NextStop]_vars /\ FairRouter

\* handlers of the application, some of them raising, and the events of the
\* A-leg and of the switch
NextHandlers ==
    \/ Connect \/ On
    \/ PeerHangup \/ PeerDestroy
    \/ Consume \/ RunDispatch \/ RunHandler

SpecHandlers == Init /\ [][NextHandlers]_vars

\* one connection of the switch served by Outbound.handler
NextOutbound ==
    \/ HandlerStart \/ HandlerResume \/ HandlerApp
    \/ PeerContext \/ PeerReply \/ PeerHangup \/ PeerDestroy \/ ReadEOF
    \/ Consume \/ RunDispatch

SpecOutbound == Init /\ [][NextOutbound]_vars

\* bridge of the A-leg to a second leg that the peer has announced
NextPair ==
    \/ Connect \/ ChannelOp \/ UnbridgeAccepted \/ UnbridgeReturn
    \/ PeerLeg \/ PeerReply \/ PeerHangup \/ PeerJob
    \/ Consume \/ RunDispatch \/ ResumeDispatch \/ RunJob

SpecPair == Init /\ [][NextPair]_vars

\* two execute commands pending at once: the application's own call on the
\* A-leg and a background task's call on either leg
NextSelect ==
    \/ Connect \/ Sendmsg \/ SendmsgReply \/ SendmsgReturn
    \/ TaskSendmsg \/ TaskReply \/ TaskReturn
    \/ PeerReply \/ PeerComplete \/ PeerStray \/ PeerHangup
    \/ Consume \/ RunDispatch
    \/ RunComplete \/ RunHangup \/ RunCompletion

SpecSelect == Init /\ [][NextSelect]_vars

\* handlers under several keys, and events with and without a key
NextKeys ==
    \/ OnKey \/ PeerHeartbeat \/ PeerCustom \/ PeerAuth
    \/ Consume \/ RunDispatch \/ RunHandler

SpecKeys == Init /\ [][NextKeys]_vars

\* sendmsg commands that are not execute, on a leg that may hang up meanwhile
NextRaw ==
    \/ Connect \/ SendmsgOther \/ SendmsgOtherReply
    \/ PeerReply \/ PeerHangup \/ PeerDestroy \/ PeerHeartbeat
    \/ Consume \/ RunDispatch

SpecRaw == Init /\ [][NextRaw]_vars

\* number of commands sent while the router is fed with every kind of frame
MaxRouterSends == 2

\* Protocol.send, for the first MaxRouterSends commands
RouterSend ==
    /\ Len(app.log) < MaxRouterSends
    /\ Send

\* the router fed with every kind of frame while commands are sent
NextRouter ==
    \/ RouterSend \/ SendReturn \/ SendTimeout
    \/ PeerReply \/ PeerAuth \/ PeerHeartbeat \/ PeerDisconnect
    \/ Consume \/ RunDispatch

SpecRouter == Init /\ [][NextRouter]_vars

NextOriginate ==
    \/ Originate \/ OriginateFiltered \/ OriginateAccepted \/ OriginateFinish
    \/ PeerReply \/ PeerCreate \/ PeerHangup \/ PeerDestroy \/ PeerJob
    \/ Consume \/ RunDispatch \/ ResumeDispatch \/ RunJob

SpecOriginate == Init /\ [][NextOriginate]_vars

(***************************************************************************)
(* Claims about the channel state machine                                  *)
(***************************************************************************)

\* C2: is_gone is monotonic: once true, no later update_state call, whatever
\* its headers, sets it back to false.
C2_IsGoneMonotonic == [][chan.is_gone => chan'.is_gone]_vars

\* C2 witness: a gone channel to which a non-terminal event was applied last,
\* so that neither state is terminal any more.
C2_Witness ==
    /\ chan.is_gone
    /\ lastEvent.ccs = "ACTIVE"
    /\ chan.call_state = "ACTIVE"
    /\ chan.state # CS_DESTROY

RECURSIVE ValuesOf(_, _)
ValuesOf(ls, key) ==
    IF ls = <<>> THEN <<>>
    ELSE IF UnquoteWord(Head(ls).k) = key
         THEN <<Unquote(Strip(Head(ls).v))>> \o ValuesOf(Tail(ls), key)
         ELSE ValuesOf(Tail(ls), key)

KeysOf(ls) == {UnquoteWord(ls[i].k) : i \in 1..Len(ls)}

\* C10: in the Event parse_headers returns, a key occurring once has a scalar
\* value and a key occurring k > 1 times has the list of its k values in
\* arrival order, each line split on the first ": ".
C10_RepeatedKeysKeepList ==
    ppc = "done" =>
        \A key \in KeysOf(lines) :
            LET occ == ValuesOf(lines, key)
            IN /\ <<key>> \in DOMAIN parsed
               /\ parsed[<<key>>] = IF Len(occ) = 1 THEN Scalar(occ[1]) ELSE ListOf(occ)

(***************************************************************************)
(* Claims about the frame reader                                           *)
(***************************************************************************)
\* a body with a header/body separator and the event-lock marker whose header
\* part holds a single event header block
SingleLockedBlock(f) ==
    /\ f.body # None
    /\ Contains(f.body, <<NL, NL>>)
    /\ Contains(Lower(Before(f.body, <<NL, NL>>)), LockMarker)
    /\ ~Contains(Before(f.body, <<NL, NL>>), NameMarker)

\* the events of the log's frames, in the order the frames were read
RECURSIVE Emitted(_)
Emitted(log) == IF log = <<>> THEN <<>> ELSE Head(log).emitted \o Emitted(Tail(log))

\* C8: every complete frame the reader parses puts at least one Event on the
\* event queue, exactly one for a single locked block, and the queue holds the
\* Events of the frames in the order parsed, none twice.
C8_EveryFrameQueued ==
    /\ \A i \in 1..Len(frameLog) :
          frameLog[i].status = "ok" =>
             /\ Len(frameLog[i].emitted) >= 1
             /\ SingleLockedBlock(frameLog[i].frame) => Len(frameLog[i].emitted) = 1
    /\ events = Emitted(frameLog)

\* a frame whose body is split and holds two event-lock bundled header blocks,
\* the second starting with the Event-Name marker
TwoLockedBlocks(f) ==
    /\ f.body # None
    /\ HasKey(parse_headers(f.head), "Content-Type")
    /\ parse_headers(f.head)[K("Content-Type")] \notin ExemptTypes
    /\ Contains(f.body, <<NL, NL>>)
    /\ Contains(Lower(Before(f.body, <<NL, NL>>)), LockMarker)
    /\ Len(Split(Before(f.body, <<NL, NL>>), NameMarker)) = 2

FirstBlock(f) == Split(Before(f.body, <<NL, NL>>), NameMarker)[1]

SecondBlock(f) ==
    <<"Event-Name", COLON, SP>> \o Split(Before(f.body, <<NL, NL>>), NameMarker)[2]

LengthAndType == {K("Content-Length"), K("Content-Type")}

Without(d, keys) == [k \in DOMAIN d \ keys |-> d[k]]

\* exactly two Events: the original Event merged with the first block, then a
\* new Event of the second block, both with the remaining body text
TwoEventsOf(entry) ==
    LET f == entry.frame
        em == entry.emitted
    IN /\ Len(em) = 2
       /\ em[1].headers = DictUpdate(parse_headers(f.head), parse_headers(FirstBlock(f)))
       /\ Without(em[2].headers, LengthAndType)
             = Without(parse_headers(SecondBlock(f)), LengthAndType)
       /\ em[1].body = After(f.body, <<NL, NL>>)
       /\ em[2].body = After(f.body, <<NL, NL>>)

\* C9 as stated: a frame with two event-lock bundled header blocks is parsed
\* into exactly two Events, queued in parse order, both carrying the original
\* frame's Content-Length and Content-Type headers and the same body text.
C9_FrameLengthAndType ==
    \A i \in 1..Len(frameLog) :
        (frameLog[i].status = "ok" /\ TwoLockedBlocks(frameLog[i].frame)) =>
            /\ TwoEventsOf(frameLog[i])
            /\ \A n \in 1..2 : \A k \in LengthAndType :
                  /\ k \in DOMAIN frameLog[i].emitted[n].headers
                  /\ frameLog[i].emitted[n].headers[k]
                        = parse_headers(frameLog[i].frame.head)[k]

\* C9 amended: a frame with two event-lock bundled header blocks is parsed
\* into exactly two Events, queued in parse order, both with the same body
\* text; the second carries the Content-Length and Content-Type of the first
\* Event as merged (the frame's, unless the first block sets them itself).
C9_TwoBundledEvents ==
    \A i \in 1..Len(frameLog) :
        (frameLog[i].status = "ok" /\ TwoLockedBlocks(frameLog[i].frame)) =>
            /\ TwoEventsOf(frameLog[i])
            /\ \A k \in LengthAndType :
                  /\ k \in DOMAIN frameLog[i].emitted[2].headers
                  /\ frameLog[i].emitted[2].headers[k] = frameLog[i].emitted[1].headers[k]
            /\ \A k \in LengthAndType \ DOMAIN parse_headers(FirstBlock(frameLog[i].frame)) :
                  frameLog[i].emitted[2].headers[k]
                     = parse_headers(frameLog[i].frame.head)[k]
            /\ events = Emitted(frameLog)

\* C9 witness: a frame with two bundled blocks was read and two Events queued
C9_Witness ==
    \E i \in 1..Len(frameLog) :
        /\ frameLog[i].status = "ok"
        /\ TwoLockedBlocks(frameLog[i].frame)
        /\ Len(frameLog[i].emitted) = 2
        /\ Len(events) >= 2

(***************************************************************************)
(* Claims about the reply queue and the session                            *)
(***************************************************************************)

\* C1: an execute command pending on a channel resolves exactly once: its
\* CommandResult never holds both a complete_event and an exception,
\* whichever of the completion and the hangup/destroy event is handled second
C1_ResolvesOnce ==
    ~(result.complete_event # BlankEvent /\ result.exception # None)

\* C4: of sequential send calls, each one that returns returns the reply the
\* peer sent to its own command (the i-th send the i-th reply)
C4_FifoReplies ==
    \A i \in 1..Len(app.log) :
        app.log[i].outcome = "returned" => app.log[i].reply.reply = app.log[i].k

\* C38: the reply to a send that gave up with ConnectionError after its
\* reply_timeout is never returned as the result of a later send
C38_LateReplyNotReturned ==
    \A i \in 1..Len(app.log) : \A j \in 1..Len(app.log) :
        (/\ i < j
         /\ app.log[i].outcome = "ConnectionError"
         /\ app.log[i].k # 0
         /\ app.log[j].outcome = "returned")
          => app.log[j].reply.reply # app.log[i].k

\* C5: once bridge(dialstring) has pre-created the B-leg, the B-leg is
\* registered under its id and the call does not raise: it ends by returning
\* the result together with that registered Channel
C5_BridgeReturnsRegisteredLeg ==
    (app.op = "bridge" /\ app.leg # 0) =>
        /\ session.channels["b"] = app.leg
        /\ app.pc # "raised"

\* C6: when the job of originate completed with a body that begins with the
\* error marker, originate has raised OriginateError carrying the destination
\* and the attempted variables, and session.channels holds no entry for the
\* new leg id
C6_FailedOriginateLeavesNoEntry ==
    (app.op = "originate" /\ app.pc \in {"raised", "returned"}
        /\ job.complete /\ IsErrorBody(job.response)) =>
        /\ app.pc = "raised"
        /\ app.error.type = "OriginateError"
        /\ app.error.destination = "user/1000"
        /\ \E v \in Variables : app.error.variables = v \cup {<<"origination_uuid", "b">>}
        /\ session.channels["b"] = 0

\* C6 witness: originate raised on an error body while the dispatcher had
\* registered a channel for the new id
C6_Witness ==
    /\ app.op = "originate"
    /\ app.pc = "raised"
    /\ job.complete
    /\ IsErrorBody(job.response)
    /\ hist.had_entry
    /\ session.channels["b"] = 0

\* C7: when the job of originate completes with +OK, originate raises
\* OriginateError and leaves no entry for the new id if a hangup or destroy
\* event for the new id was routed before the job completed, and otherwise
\* returns a Channel registered under the new id
C7_GoneBeforeJobRaises ==
    [][(app.op = "originate" /\ app.pc \notin {"raised", "returned"}
          /\ app'.pc \in {"raised", "returned"}
          /\ job.complete /\ ~IsErrorBody(job.response)) =>
        IF hist.gone_at_job
        THEN app'.pc = "raised" /\ session'.channels["b"] = 0
        ELSE app'.pc = "returned" /\ session'.channels["b"] = app'.ret]_vars

\* C23: a frame whose Content-Length is not a number does not abort the
\* stream: the reader task is never dead while the session is still marked
\* connected; it goes on reading or the session is marked disconnected.
C23_BadLengthKeepsStream ==
    producer # "running" => ~is_connected

(***************************************************************************)
(* Claims about the dispatcher                                             *)
(***************************************************************************)
\* C11: channel_a changes from None to a channel at most once in a session,
\* and changes back to None only when a CHANNEL_DESTROY event for that
\* channel's id is dispatched; a creation event for another id after the
\* A-leg was destroyed does not set channel_a again.
C11_AlegSetOnce ==
    [][/\ (session.channel_a = 0 /\ session'.channel_a # 0) => hist.a_sets = 0
       /\ (session.channel_a # 0 /\ session'.channel_a = 0) =>
             /\ RunDispatch
             /\ Head(session.ready).ev.name = "CHANNEL_DESTROY"
             /\ Head(session.ready).ev.uuid = session.heap[session.channel_a].uuid]_vars

\* C12: the dispatcher creates a Channel for an id not in the registry only
\* on a CHANNEL_CREATE/CHANNEL_DATA event or on the initial connect reply (a
\* command/reply with a Channel-State header while there is no A-leg); an
\* event without an id, and every other event for an unknown id, leaves the
\* registry and channel_a unchanged and sends no command.
C12_UnknownIdsDropped ==
    [][/\ \A u \in Uuids :
            (session.channels[u] = 0 /\ session'.channels[u] # 0) =>
               \/ Connect /\ ConnectReply.uuid = u
                          /\ IsInitialConnectReply(session, ConnectReply)
               \/ /\ RunDispatch
                  /\ Head(session.ready).ev.uuid = u
                  /\ \/ Head(session.ready).ev.name \in {"CHANNEL_CREATE", "CHANNEL_DATA"}
                     \/ IsInitialConnectReply(session, Head(session.ready).ev)
       /\ (RunDispatch /\ IsDropped(session, Head(session.ready).ev)) =>
            /\ session'.channels = session.channels
            /\ session'.heap = session.heap
            /\ session'.channel_a = session.channel_a
            /\ session'.written = session.written]_vars

\* C12 witness: events of an unknown leg that are no creation trigger, and an
\* event without an id, were dispatched while another leg was registered
C12_Witness ==
    /\ {"CHANNEL_ANSWER", "CHANNEL_HANGUP", "HEARTBEAT"} \subseteq hist.dropped
    /\ \E u \in Uuids : session.channels[u] # 0

\* C13: dispatching a CHANNEL_DESTROY event for a registered id applies the
\* event to that Channel (gone, core state DESTROY), then removes the id from
\* the registry and clears channel_a if it was that channel; no other entry
\* is removed.
C13_DestroyRemovesEntry ==
    [][(/\ RunDispatch
        /\ Head(session.ready).ev.name = "CHANNEL_DESTROY"
        /\ Head(session.ready).ev.uuid # None
        /\ session.channels[Head(session.ready).ev.uuid] # 0) =>
          LET ev == Head(session.ready).ev
              idx == session.channels[ev.uuid]
          IN /\ session'.heap[idx] = update_state(session.heap[idx], ev)
             /\ ev.csn = "12" => /\ session'.heap[idx].is_gone
                                 /\ session'.heap[idx].state = CS_DESTROY
             /\ session'.channels[ev.uuid] = 0
             /\ \A u \in Uuids \ {ev.uuid} : session'.channels[u] = session.channels[u]
             /\ session.channel_a = idx => session'.channel_a = 0]_vars

\* C13 witness: the A-leg was destroyed and removed, channel_a cleared, while
\* the other leg is still registered
C13_Witness ==
    /\ session.channel_a = 0
    /\ \E i \in 1..Len(session.heap) :
          /\ session.heap[i].is_gone
          /\ session.heap[i].state = CS_DESTROY
          /\ session.channels[session.heap[i].uuid] = 0
          /\ \E u \in Uuids \ {session.heap[i].uuid} :
                session.channels[u] # 0 /\ ~session.heap[session.channels[u]].is_gone

(***************************************************************************)
(* Claims about the operations of a Channel                                *)
(***************************************************************************)
\* the operations of C14: every command-issuing one but hangup
GoneOps == ExecuteOps \cup CheckedOps \cup {"bridge"}

\* C14: execute, answer, park, playback, set_variable, get_variable, bridge
\* and unbridge called on a channel that is gone raise SessionGoneAway
\* before any command is written, and leave the registry and the handler
\* registries unchanged (bridge registers no B-leg).
C14_GoneFailsFast ==
    [][(/\ app.op = None
        /\ app'.op \in GoneOps
        /\ app.chan # 0
        /\ session.heap[app.chan].is_gone) =>
          /\ app'.pc = "raised"
          /\ app'.error.type = "SessionGoneAway"
          /\ session'.written = session.written
          /\ session'.channels = session.channels
          /\ session'.handlers = session.handlers
          /\ session'.heap = session.heap]_vars

\* C14 witness: an operation built on execute raised on the gone A-leg
C14_Witness ==
    /\ app.op \in ExecuteOps
    /\ app.pc = "raised"
    /\ app.error.type = "SessionGoneAway"
    /\ session.heap[app.chan].is_gone

\* C15: Channel.hangup on a channel that is gone, or whose core state is
\* HANGUP or DESTROY, sends no command and returns a CommandResult that is
\* completed and successful; otherwise it sends exactly one hangup command
\* carrying the cause.
C15_HangupOnceOrNever ==
    [][(app.op = None /\ app'.op = "hangup") =>
          LET ch == session.heap[app.chan]
          IN IF ch.is_gone \/ ch.state \in {CS_HANGUP, CS_DESTROY}
             THEN /\ session'.written = session.written
                  /\ app'.pc = "returned"
                  /\ result'.complete
                  /\ result'.exception = None
             ELSE /\ Len(session'.written) = Len(session.written) + 1
                  /\ session'.written[Len(session'.written)].kind = "hangup"
                  /\ app'.pc # "raised"]_vars

\* C16: when a CHANNEL_HANGUP or CHANNEL_DESTROY event for the channel of a
\* pending execute command is handled before the command completed, the
\* result stores an OperationInterruptedException carrying the command's
\* correlation id and the channel's id, is completed and not successful, and
\* awaiting it raises that exception.
C16_InterruptionStored ==
    [][(/\ RunHangup
        /\ Head(session.ready).ev.name \in {"CHANNEL_HANGUP", "CHANNEL_DESTROY"}
        /\ Head(session.ready).ev.uuid = result.channel_uuid
        /\ result.command = "execute"
        /\ ~result.complete) =>
          /\ result'.exception = "OperationInterruptedException"
          /\ result'.exception_ids = <<result.app_uuid, result.channel_uuid>>
          /\ result'.complete
          /\ result'.exception # None
          /\ wait(result').raised
          /\ wait(result').exception = result'.exception
          /\ wait(result').ids = <<result.app_uuid, result.channel_uuid>>]_vars

\* C16 witness: sendmsg returned a result that was interrupted and never
\* completed by an event
C16_Witness ==
    /\ app.op = "execute"
    /\ app.pc = "returned"
    /\ result.exception = "OperationInterruptedException"
    /\ result.exception_ids = <<AppUuid, "a">>
    /\ result.complete_event = BlankEvent
    /\ wait(result).raised

\* C25: Channel.unbridge issues exactly one background job.  Its command is
\* "uuid_transfer <id> -both park: inline" when park is true, whatever the
\* destination, and "uuid_transfer <id>  <destination or nothing> inline"
\* when park is false; unbridge returns only once that job has completed.
C25_UnbridgeCommand ==
    [][app'.op = "unbridge" =>
          LET uuid == session'.heap[app'.chan].uuid
              jobs == SelectSeq(session'.written, LAMBDA c : c.kind = "bgapi")
          IN /\ (app.op = None /\ app'.pc = "accept_wait")
                  => /\ Len(session'.written) = Len(session.written) + 1
                     /\ job'.cmd
                          = (IF app'.park
                             THEN <<"uuid_transfer", SP, uuid, SP, "-both", SP,
                                    "park:", SP, "inline">>
                             ELSE IF app'.destination = "1000"
                             THEN <<"uuid_transfer", SP, uuid, SP, SP, "1000", SP,
                                    "inline">>
                             ELSE <<"uuid_transfer", SP, uuid, SP, SP, SP, "inline">>)
             /\ app'.pc \in {"accept_wait", "wait", "returned"}
                  => /\ Len(jobs) = 1
                     /\ jobs[1].id = job'.job_uuid
             /\ app'.pc = "returned" => job'.complete]_vars

\* unbridge with park and a destination has returned the completed job
C25_Witness ==
    /\ app.op = "unbridge"
    /\ app.pc = "returned"
    /\ app.park
    /\ app.destination = "1000"
    /\ job.complete

\* C26: Channel.bridge with an existing Channel as target issues one
\* background job, "uuid_bridge <this id> <target id>", and returns only that
\* job's result once it has completed; no step of it creates, registers or
\* removes a channel or writes a filter command.
C26_BridgeToChannel ==
    [][(app'.op = "uuid_bridge" /\ app' # app) =>
          LET jobs == SelectSeq(session'.written, LAMBDA c : c.kind = "bgapi")
              filters(w) == Len(SelectSeq(w, LAMBDA c : c.kind = "filter"))
          IN /\ (app.op = None /\ app'.pc = "accept_wait")
                  => /\ Len(session'.written) = Len(session.written) + 1
                     /\ job'.cmd = <<"uuid_bridge", SP, session.heap[app.chan].uuid, SP,
                                     session.heap[app'.leg].uuid>>
             /\ app'.pc \in {"accept_wait", "wait", "returned"}
                  => /\ Len(jobs) = 1
                     /\ jobs[1].id = job'.job_uuid
             /\ app'.pc = "returned" => job'.complete
             /\ filters(session'.written) = filters(session.written)
             /\ session'.channels = session.channels
             /\ session'.heap = session.heap]_vars

\* the A-leg was bridged to the registered leg b and the job has completed
C26_Witness ==
    /\ app.op = "uuid_bridge"
    /\ app.pc = "returned"
    /\ app.leg # 0
    /\ session.channels["b"] = app.leg
    /\ job.complete

\* C36: whenever session.channel_a is set, its id is a key of
\* session.channels and the entry is that same Channel object.
C36_AlegIsRegistered ==
    session.channel_a # 0
      => session.channels[session.heap[session.channel_a].uuid] = session.channel_a

\* C37: events of one channel id are applied in the order they were
\* dequeued: once no event is queued and no dispatch task is ready or
\* suspended, every Channel holds the core state and call state of the last
\* event the peer sent for its id.
C37_AppliedInOrder ==
    (events = <<>> /\ session.ready = <<>> /\ session.getters = <<>>)
      => \A i \in 1..Len(session.heap) :
            LET c == session.heap[i]
                l == peer.legs[c.uuid]
            IN  /\ l = "up" => (c.state = 4 /\ c.call_state = "ACTIVE")
                /\ l = "hungup" => (c.state = 10 /\ c.call_state = "HANGUP")
                /\ l = "destroyed" => (c.state = 12 /\ c.call_state = "HANGUP")

\* C40: a registry entry is stable: an id registered in session.channels
\* keeps the same Channel object (whose uuid is the id) in every step, except
\* the step that dispatches a CHANNEL_DESTROY event for that id, which may
\* remove the entry
C40_RegistryStable ==
    [][\A u \in Uuids :
          session.channels[u] # 0 =>
             \/ /\ session'.channels[u] = session.channels[u]
                /\ session'.heap[session.channels[u]].uuid = u
             \/ /\ session'.channels[u] = 0
                /\ RunDispatch
                /\ Head(session.ready).ev.name = "CHANNEL_DESTROY"
                /\ Head(session.ready).ev.uuid = u]_vars

(***************************************************************************)
(* Claims about failure and shutdown                                       *)
(***************************************************************************)
\* C17: after a transport failure during read the session is marked
\* disconnected, and every task then blocked awaiting a reply inside send
\* or the resolution of a pending execute command is eventually unwound.
C17_BlockedTasksUnwound ==
    /\ [](producer = "done" => ~is_connected)
    /\ [](producer = "done" /\ app.pc \in {"reply_wait", "wait"}
            => <>(app.pc \notin {"reply_wait", "wait"}))

\* C18: Protocol.stop is idempotent.  Every call of stop completes without
\* raising and leaves is_connected false, the writer closed and neither the
\* reader nor the router task running; a call that follows a stop changes
\* nothing any more.
C18_StopIdempotent ==
    [][Len(session'.stops) > Len(session.stops)
         => /\ session'.stops[Len(session'.stops)] = "completed"
            /\ ~is_connected'
            /\ session'.writer = "closed"
            /\ producer' # "running"
            /\ session'.consumer \notin {"running", "cancelling"}
            /\ session.stops # <<>>
                 => /\ is_connected' = is_connected
                    /\ producer' = producer
                    /\ session'.writer = session.writer
                    /\ session'.consumer = session.consumer]_vars

\* C19: a handler that raises affects nothing else.  Every handler registered
\* for an event, under its name or under "*", on the session or on the
\* channel, gets its call for that event whatever the other handlers do, and
\* a handler task that ends, raising or not, leaves the router, the queue of
\* events, the other tasks and the registrations as they were.
C19_RaisingHandlerIsolated ==
    [][LET Count(s, id, name) ==
               Len(SelectSeq(s.ready, LAMBDA t : t.id = id /\ t.ev.name = name))
               + Len(SelectSeq(s.calls, LAMBDA c : c = <<id, name>>))
           Called(hs, keys, name) ==
               \A i \in DOMAIN hs :
                   hs[i].fn \in UserFns /\ hs[i].key \in keys
                     => Count(session', hs[i].id, name)
                          = Count(session, hs[i].id, name) + 1
       IN /\ Consume /\ ~Stops(Head(events)) /\ Head(events).name # None
               => Called(session.handlers, {Head(events).name, "*"},
                         Head(events).name)
          /\ RunDispatch /\ Head(session.ready).ev.uuid # None
               => LET ev == Head(session.ready).ev
                      idx == session.channels[ev.uuid]
                  IN idx # 0 => Called(session.heap[idx].handlers,
                                       {HandlerKey(ev), "*"}, ev.name)
          /\ RunHandler
               => /\ session'.ready = Tail(session.ready)
                  /\ session'.consumer = session.consumer
                  /\ session'.handlers = session.handlers
                  /\ session'.heap = session.heap
                  /\ session'.channels = session.channels
                  /\ is_connected' = is_connected
                  /\ events' = events]_vars

\* on the A-leg a raising plain handler was registered before another handler,
\* both were called for the hangup, and the destroy event that followed was
\* dispatched to the second one as well
C19_Witness ==
    /\ session.heap # <<>>
    /\ LET hs == session.heap[1].handlers
       IN /\ Len(hs) = 2
          /\ hs[1].fn = "sync_raising"
          /\ hs[2].fn \in UserFns
          /\ \E i, j, k \in DOMAIN session.calls :
                /\ session.calls[i] = <<hs[1].id, "CHANNEL_HANGUP">>
                /\ session.calls[j] = <<hs[2].id, "CHANNEL_HANGUP">>
                /\ session.calls[k] = <<hs[2].id, "CHANNEL_DESTROY">>

\* C20: Channel.execute, and playback built on it, called on a live channel of
\* a connected session does not raise; with block=False it returns a result
\* that is not yet completed, with block=True a result that is completed.
C20_BlockChoosesWaiting ==
    [][(app'.op \in BlockOps /\ app'.pc # app.pc) =>
          /\ (is_connected /\ ~session.heap[app.chan].is_gone) => app'.pc # "raised"
          /\ app'.pc = "returned" => (result'.complete <=> app'.block)]_vars

\* C27: send on a session that is not connected (stopped by the application,
\* stopped by a disconnect notice, or left by a read failure) raises
\* UnconnectedError at once; it writes nothing to the connection, takes nothing
\* from the reply queue and leaves no getter waiting on it.
C27_SendUnconnected ==
    [][(app.pc = "idle" /\ app'.op = "send" /\ app' # app /\ ~is_connected) =>
          /\ app'.pc = "idle"
          /\ Len(app'.log) = Len(app.log) + 1
          /\ app'.log[Len(app'.log)].outcome = "UnconnectedError"
          /\ session'.written = session.written
          /\ session'.commands = session.commands
          /\ session'.getters = session.getters]_vars

\* send was refused after a read failure that followed an answered command
C27_Witness ==
    /\ producer = "done"
    /\ ~is_connected
    /\ session.written # <<>>
    /\ Len(app.log) = 2
    /\ app.log[1].outcome = "returned"
    /\ app.log # <<>>
    /\ app.log[Len(app.log)].outcome = "UnconnectedError"

\* C28: from the moment the execute frame is written until the command is
\* resolved, its completion waiter and its interruption waiters are registered
\* with the router; a matching CHANNEL_EXECUTE_COMPLETE, CHANNEL_HANGUP or
\* CHANNEL_DESTROY event routed in that time gets a task for its waiter, and
\* that task resolves the command, also while the reply is still awaited.
C28_WaitersBeforeWrite ==
    [][LET Written(s) == {s.written[i] : i \in 1..Len(s.written)}
           Pending(s, r, c) == c \in Written(s) /\ c.kind = "execute" /\ ~r.semaphore
           Registered(s, c) ==
               \A j \in 1..Len(ExecuteHandlers(c.id, c.uuid)) :
                   \E i \in 1..Len(s.handlers) :
                       s.handlers[i] = ExecuteHandlers(c.id, c.uuid)[j]
           Matches(c, ev) ==
               \/ ev.name = "CHANNEL_EXECUTE_COMPLETE" /\ ev.app_uuid = c.id
               \/ ev.name \in {"CHANNEL_HANGUP", "CHANNEL_DESTROY"} /\ ev.uuid = c.uuid
           Waiter(ev) ==
               IF ev.name = "CHANNEL_EXECUTE_COMPLETE" THEN "complete" ELSE "hangup"
       IN /\ \A c \in Written(session') :
               Pending(session', result', c) => Registered(session', c)
          /\ \A c \in Written(session) :
               /\ (Consume /\ Pending(session, result, c) /\ Matches(c, Head(events)))
                     => \E i \in 1..Len(session'.ready) :
                            /\ session'.ready[i].kind = Waiter(Head(events))
                            /\ session'.ready[i].id = c.id
                            /\ session'.ready[i].ev = Head(events)
               /\ ((RunComplete \/ RunHangup) /\ Matches(c, Head(session.ready).ev)
                        /\ Head(session.ready).id = c.id)
                     => result'.semaphore /\ result'.complete]_vars

\* a hangup routed before the reply to the execute command was returned has
\* resolved the command
C28_Witness ==
    /\ app.op = "execute"
    /\ app.pc = "reply_wait"
    /\ Len(session.written) = 1
    /\ result.semaphore
    /\ result.exception = "OperationInterruptedException"

\* C29: once the execute command has resolved and sendmsg has returned, with
\* no handler task left to run, no handler of that command is registered: none
\* in the session's handler list and none in the channel's own list.
C29_NoWaiterLeft ==
    (app.op = "execute" /\ app.pc = "returned" /\ result.semaphore
        /\ session.ready = <<>>)
      => /\ \A i \in 1..Len(session.handlers) :
               session.handlers[i].id # result.app_uuid
         /\ \A c \in 1..Len(session.heap) :
               \A i \in 1..Len(session.heap[c].handlers) :
                   session.heap[c].handlers[i].id # result.app_uuid

\* C30: a pending execute command is resolved only by a handler task of its
\* own whose event matches it: a CHANNEL_EXECUTE_COMPLETE with its correlation
\* id, or a CHANNEL_HANGUP / CHANNEL_DESTROY of its channel.  Every other step,
\* among them the completion of another command, a completion with a foreign
\* Application-UUID and the hangup of another channel, leaves it pending with
\* its three waiters registered; a matching task does resolve it.
C30_SelectiveResolution ==
    [][\A id \in {AppUuid, TaskUuid} :
        LET r == ResultOf(id)
            t == Head(session.ready)
            Matching ==
                /\ session.ready # <<>>
                /\ t.id = id
                /\ \/ /\ t.kind \in {"complete", "completion"}
                      /\ t.ev.name = "CHANNEL_EXECUTE_COMPLETE"
                      /\ t.ev.app_uuid = id
                   \/ /\ t.kind = "hangup"
                      /\ t.ev.name \in {"CHANNEL_HANGUP", "CHANNEL_DESTROY"}
                      /\ t.ev.uuid = r.channel_uuid
            Registered(hs) ==
                \A j \in 1..Len(ExecuteHandlers(id, r.channel_uuid)) :
                    \E i \in 1..Len(hs) : hs[i] = ExecuteHandlers(id, r.channel_uuid)[j]
        IN (r.command = "execute" /\ ~r.semaphore) =>
             /\ (ResultOf(id)'.semaphore \/ ResultOf(id)'.complete # r.complete)
                   => Matching
             /\ ~ResultOf(id)'.semaphore
                   => /\ Registered(session'.handlers)
                      /\ ResultOf(id)'.exception = None
             /\ ((RunComplete \/ RunHangup) /\ Matching) => ResultOf(id)'.semaphore]_vars

\* both commands were pending on the A-leg; a completion with a foreign id was
\* routed, then the completion of the task's command: only that one is resolved
C30_Witness ==
    /\ peer.stray
    /\ events = <<>>
    /\ session.ready = <<>>
    /\ Len(session.written) = 2
    /\ app.bg.result.channel_uuid = "a"
    /\ app.bg.result.semaphore
    /\ app.bg.result.complete_event.app_uuid = TaskUuid
    /\ result.command = "execute"
    /\ ~result.semaphore
    /\ ~result.complete
    /\ Len(session.handlers) = 4

(***************************************************************************)
(* Claims about the router                                                 *)
(***************************************************************************)
\* C31: the router appends an event to the reply queue exactly when its
\* Content-Type is command/reply or api/response, once and at the end (arrival
\* order); an auth/request event sets the authentication signal and is not
\* queued; no other step and no other content type adds to the reply queue.
C31_RepliesOnlyQueued ==
    [][LET ev == Head(events)
           IsReply == ev.ctype \in {"command/reply", "api/response"}
       IN /\ Len(session'.commands) > Len(session.commands) => Consume
          /\ (Consume /\ ~Stops(ev)) =>
                /\ session'.commands = IF IsReply THEN Append(session.commands, ev)
                                       ELSE session.commands
                /\ session'.authentication_event =
                      (session.authentication_event \/ ev.ctype = "auth/request")
          /\ (Consume /\ Stops(ev)) => session'.commands = session.commands]_vars

\* the authentication request, a heartbeat and two replies were routed; the
\* two replies are queued in the order of their commands
C31_Witness ==
    /\ session.authentication_event
    /\ peer.beats > 0
    /\ events = <<>>
    /\ Len(session.commands) = 2
    /\ session.commands[1].reply = 1
    /\ session.commands[2].reply = 2

\* C32: once the router has consumed a disconnect notice or a rude rejection
\* without the linger disposition, the session ends up shut down: not
\* connected, the connection closed, the reader and the router task finished.
C32_NoticeShutsDown ==
    (\E i \in 1..Len(session.stops) : session.stops[i] = "pending")
      ~> /\ ~is_connected
         /\ session.writer = "closed"
         /\ producer # "running"
         /\ session.consumer \in {"done", "cancelled"}

\* C33: a sendmsg command other than execute registers no waiter: from the
\* call to its return the session's and the channels' handler lists are what
\* they were before; when send returns, the CommandResult is completed with
\* that reply, and a hangup of the channel in between does not resolve it.
C33_NoWaitersForOtherCommands ==
    [][app'.op = "sendmsg" =>
          /\ session'.handlers = session.handlers
          /\ \A c \in 1..Len(session'.heap) : session'.heap[c].handlers = <<>>
          /\ result'.exception = None
          /\ app'.pc = "reply_wait" => ~result'.complete
          /\ (app.pc = "reply_wait" /\ app'.pc = "returned")
                => /\ result'.complete
                   /\ result'.complete_event = Head(session.commands)
                   /\ result'.initial_event = Head(session.commands)
                   /\ result'.complete_event.ctype = "command/reply"]_vars

\* a raw hangup was sent with an app_event_uuid; the leg hung up before the
\* reply was taken; the call has returned the completed result
C33_Witness ==
    /\ app.op = "sendmsg"
    /\ app.pc = "returned"
    /\ result.command = "hangup"
    /\ result.app_uuid = AppUuid
    /\ result.complete
    /\ "a" \in hist.terminal_routed
    /\ session.handlers = <<DispatchHandler>>

\* C39: every event the reader queued before the connection closed is
\* eventually dequeued by the router: once is_connected is false with events
\* still queued, the queue becomes empty
C39_QueuedEventsRouted ==
    (~is_connected /\ events # <<>>) ~> (events = <<>>)

\* C34: once is_connected is false the consume loop ends, whether or not
\* another event arrives: the router task finishes (it leaves the loop or is
\* cancelled).
C34_RouterObservesShutdown ==
    ~is_connected ~> session.consumer \in {"done", "cancelled"}

\* C35: for every routed event the key is the Event-Subclass when the
\* Event-Name is CUSTOM and the Event-Name otherwise; the tasks the router
\* creates are one per handler registered under that key, in registration
\* order, followed by one per handler registered under "*", each called with
\* that event; an event without a key gets no task.
C35_HandlersByKey ==
    [][Consume =>
          LET ev == Head(events)
              key == IF ev.name = "CUSTOM" THEN ev.subclass ELSE ev.name
              hs == SelectSeq(session.handlers, LAMBDA h : h.key = key)
                    \o SelectSeq(session.handlers, LAMBDA h : h.key = "*")
              added == SubSeq(session'.ready, Len(session.ready) + 1, Len(session'.ready))
          IN /\ Len(session'.ready) >= Len(session.ready)
             /\ Len(added) = IF key = None THEN 0 ELSE Len(hs)
             /\ \A i \in 1..Len(added) :
                   /\ added[i].kind = hs[i].fn
                   /\ added[i].id = hs[i].id
                   /\ added[i].ev = ev]_vars

\* with one handler under CUSTOM and one under sofia::register, a CUSTOM event
\* of that subclass was routed: only the second handler was called
C35_Witness ==
    /\ Len(session.handlers) = 3
    /\ session.handlers[2].key = "CUSTOM"
    /\ session.handlers[3].key = "sofia::register"
    /\ peer.beats = 1
    /\ session.calls = <<<<"h2", "CUSTOM">>>>
    /\ session.ready = <<>>
    /\ events = <<>>

(***************************************************************************)
(* Claims about CommandResult                                              *)
(***************************************************************************)
\* C21: is_successful raises ValueError whenever is_completed is false and,
\* once completed, equals "no exception stored"; response is None unless the
\* result holds a completion event and is completed; bool(result) equals
\* is_completed; and is_completed of a result never goes back to false.
C21_SuccessOnlyOnceCompleted ==
    [][/\ ~is_completed(result') => is_successful(result').raised = "ValueError"
       /\ is_completed(result')
            => /\ is_successful(result').raised = None
               /\ is_successful(result').value = (result'.exception = None)
       /\ response(result') # None
            => /\ is_completed(result')
               /\ result'.complete_event.name = "CHANNEL_EXECUTE_COMPLETE"
       /\ bool(result') = is_completed(result')
       /\ (is_completed(result) /\ result'.app_uuid = result.app_uuid)
            => is_completed(result')]_vars

\* one result was interrupted by a hangup and then received its completion
\* event: completed, not successful, with a response
C21_Witness ==
    /\ is_completed(result)
    /\ is_successful(result).value = FALSE
    /\ response(result) = "FILE PLAYED"

====
